---- MODULE Spec2Model ----
(***************************************************************************)
(* A model of the Clue guessing framework (clue_guesser.py) and of the     *)
(* maximum-likelihood player with its counting engine                      *)
(* (optimal_clue_guesser.py).                                              *)
(*                                                                         *)
(* A HandInformation object is a record with the fields of the Python      *)
(* object.  A constraint is a sequence of cards: the code only iterates    *)
(* over a constraint and tests membership in it, and callers pass sets     *)
(* (whose iteration order is unspecified), lists and tuples, so a sequence *)
(* in any order, with or without repeated cards, covers all of them.       *)
(***************************************************************************)
EXTENDS Integers, Sequences, FiniteSets, TLC

VARIABLES
    subject,         \* the HandInformation object the hand-level calls act on
    players,         \* the HandInformation objects of the players (the
                     \* argument of satisfyAllConstraints, the other_players
                     \* of countPlayerPossibilities)
    counted,         \* the player_to_count of countPlayerPossibilities
    count_args,      \* the hand_infos argument of countPossibleStates
    cache,           \* _game_state_counter.cache, a set of [key, count]
    ret,             \* the last call and what it returned
    game,            \* the ClueController and what its players hold
    ml,              \* the MaximumLikelihoodCluePlayer of the game
    spent,           \* what was handed over since the cache was made: the
                     \* hands, possible cards and constraints the lists of
                     \* count_args were made of, the cards and guesses the
                     \* player was told
    cache_size_on_last_load,  \* GameStateCounter.cache_size_on_last_load
    cache_file       \* the file at GameStateCounter.cache_path

vars == <<subject, players, counted, count_args, cache, ret, game, ml,
         spent, cache_size_on_last_load, cache_file>>

-----------------------------------------------------------------------------
(* Bounds of the model.                                                    *)

\* number of cards of the universe
NumCards == 3
\* largest hand_size a hand is constructed with
MaxHandSize == 2
\* most card entries the constraints of one hand list in total (a
\* constraint that lists no card counts as one entry)
MaxConstraintCards == 3

Cards == 1..NumCards

-----------------------------------------------------------------------------
(* General helpers.                                                        *)

Range(s) == {s[i] : i \in 1..Len(s)}

Min(a, b) == IF a < b THEN a ELSE b

\* itertools.combinations(S, r) over a set S, as the set of the r-subsets.
\* (r < 0 makes itertools raise ValueError; callers model that case.)
combinations(S, r) == {T \in SUBSET S : Cardinality(T) = r}

\* A fixed enumeration of a set: the order in which Python iterates over it.
RECURSIVE SetToSeq(_)
SetToSeq(S) ==
    IF S = {} THEN <<>>
    ELSE LET x == CHOOSE y \in S : TRUE
         IN <<x>> \o SetToSeq(S \ {x})

\* F applied to the value of v, which is computed once.
Once(v, F(_)) == CHOOSE r \in {F(x) : x \in {v}} : TRUE

\* All sequences over S of length 0..n.
SeqsUpTo(S, n) == UNION {[1..k -> S] : k \in 0..n}

\* (M - lo) * (M - lo - 1) * ... * (M - hi)
RECURSIVE Product(_, _, _)
Product(lo, hi, M) == IF lo > hi THEN 1 ELSE (M - lo) * Product(lo + 1, hi, M)

RECURSIVE Factorial(_)
Factorial(n) == IF n <= 0 THEN 1 ELSE n * Factorial(n - 1)

\* comb(N, k): scipy.special.comb(N, k, exact=True), the binomial
\* coefficient, 0 when k > N or k < 0.
comb(N, k) ==
    IF k > N \/ N < 0 \/ k < 0 THEN 0
    ELSE LET nterms == Min(k, N - k)
         IN Product(1, nterms, N + 1) \div Factorial(nterms)

-----------------------------------------------------------------------------
(* HandInformation.                                                        *)

HandInformation(hand_size, known_cards, possible_cards) ==
    [hand_size |-> hand_size,
     known_cards |-> known_cards,
     possible_cards |-> possible_cards,
     constraint_list |-> <<>>]

num_unknown_cards(self) == self.hand_size - Cardinality(self.known_cards)

removePossibleCard(self, card) ==
    [self EXCEPT !.possible_cards = @ \ {card}]

\* addKnownCard without its call of removePossibleCard
addKnownCardKeepPossible(self, card) ==
    [self EXCEPT !.known_cards = @ \cup {card}]

addKnownCard(self, card) ==
    removePossibleCard([self EXCEPT !.known_cards = @ \cup {card}], card)

addConstraint(self, constraint) ==
    [self EXCEPT !.constraint_list = Append(@, constraint)]

\* a pop that takes one card from the last constraint, and the constraint
\* when it has no other card
popConstraintCard(self) ==
    LET last == self.constraint_list[Len(self.constraint_list)]
    IN IF Len(last) > 1
         THEN [self EXCEPT !.constraint_list[Len(self.constraint_list)]
                               = Tail(last)]
       ELSE [self EXCEPT !.constraint_list = SubSeq(@, 1, Len(@) - 1)]

\* constraint_list.pop() on a copy of the hand.
popConstraint(self) ==
    [self EXCEPT !.constraint_list = SubSeq(@, 1, Len(@) - 1)]

\* the test for a met constraint, never true
meetsConstraintNever(cards, constraint) == FALSE

\* any(c in cards for c in constraint)
meetsConstraint(cards, constraint) ==
    \E i \in 1..Len(constraint) : constraint[i] \in cards

\* getPossibleHands: one completed hand per combination of num_unknown_cards
\* possible cards that meets every constraint; "ValueError" when
\* num_unknown_cards is negative (itertools.combinations raises).
getPossibleHands(self) ==
    IF num_unknown_cards(self) < 0 THEN "ValueError"
    ELSE LET combos == SetToSeq(combinations(self.possible_cards,
                                             num_unknown_cards(self)))
             hand_list == [i \in 1..Len(combos) |->
                              HandInformation(self.hand_size,
                                              self.known_cards \cup combos[i],
                                              {})]
             meets_constraints(h) ==
                 \A k \in 1..Len(self.constraint_list) :
                     meetsConstraint(h.known_cards, self.constraint_list[k])
         IN SelectSeq(hand_list, meets_constraints)

\* numPossibleHands
numPossibleHands(self) ==
    IF Len(self.constraint_list) > 0 THEN "ValueError"
    ELSE comb(Cardinality(self.possible_cards), num_unknown_cards(self))

\* numPossibleHands without the test of the constraint list.
numPossibleHandsUnchecked(self) ==
    [val |-> comb(Cardinality(self.possible_cards), num_unknown_cards(self)),
     err |-> ""]

\* A call of numPossibleHands: the value and the exception it raised.
numPossibleHandsCall(self) ==
    IF Len(self.constraint_list) > 0 THEN [val |-> 0, err |-> "ValueError"]
    ELSE [val |-> numPossibleHands(self), err |-> ""]

\* removeOldCards with the removal forgotten: the branches overlap.
removeOldCardsForgotten(hand_info, old_cards) == hand_info

\* for c in old_cards: hand_info.removePossibleCard(c)
RECURSIVE removeOldCards(_, _)
removeOldCards(hand_info, old_cards) ==
    IF Len(old_cards) = 0 THEN hand_info
    ELSE removeOldCards(removePossibleCard(hand_info, Head(old_cards)),
                        Tail(old_cards))

\* constraintBranches without the test for a free slot of the hand.
RECURSIVE constraintBranchesAnySlot(_, _, _, _)
constraintBranchesAnySlot(self, constraint, i, old_cards) ==
    IF i > Len(constraint) THEN <<>>
    ELSE
      LET card == constraint[i]
          hand_info == popConstraint(self)
          added == addKnownCard(hand_info, card)
      IN IF card \notin hand_info.known_cards /\ card \notin hand_info.possible_cards
           THEN constraintBranchesAnySlot(self, constraint, i + 1, old_cards)
         ELSE IF \E k \in 1..Len(old_cards) : old_cards[k] \in added.known_cards
           THEN constraintBranchesAnySlot(self, constraint, i + 1, old_cards)
         ELSE <<[card |-> card,
                 old_cards |-> old_cards,
                 hand_info |-> removeOldCards(added, old_cards)]>>
              \o constraintBranchesAnySlot(self, constraint, i + 1,
                                           Append(old_cards, card))

\* The loop of satisfyConstraints over the cards of the last constraint,
\* from position i on: the branches it recurses on, each with the card it
\* added and the cards branched on before it (old_cards).
RECURSIVE constraintBranches(_, _, _, _)
constraintBranches(self, constraint, i, old_cards) ==
    IF i > Len(constraint) THEN <<>>
    ELSE
      LET card == constraint[i]
          hand_info == popConstraint(self)
          added == addKnownCard(hand_info, card)
      IN IF card \notin hand_info.known_cards /\ card \notin hand_info.possible_cards
           THEN constraintBranches(self, constraint, i + 1, old_cards)
         ELSE IF num_unknown_cards(hand_info) = 0
           THEN constraintBranches(self, constraint, i + 1, old_cards)
         ELSE IF \E k \in 1..Len(old_cards) : old_cards[k] \in added.known_cards
           THEN constraintBranches(self, constraint, i + 1, old_cards)
         ELSE <<[card |-> card,
                 old_cards |-> old_cards,
                 hand_info |-> removeOldCards(added, old_cards)]>>
              \o constraintBranches(self, constraint, i + 1,
                                    Append(old_cards, card))

\* splitBranches looking at the first card of the constraint only.
splitBranchesFirstCard(self) ==
    LET constraint == self.constraint_list[Len(self.constraint_list)]
    IN constraintBranches(self, SubSeq(constraint, 1, Min(1, Len(constraint))),
                          1, <<>>)

\* The branches of the split of self's last constraint.
splitBranches(self) ==
    constraintBranches(self, self.constraint_list[Len(self.constraint_list)],
                       1, <<>>)

\* satisfyConstraints that gives up on a hand with fewer possible cards
\* than free slots.
RECURSIVE satisfyConstraintsViable(_), extendBranchesViable(_, _)
extendBranchesViable(branches, i) ==
    IF i > Len(branches) THEN <<>>
    ELSE satisfyConstraintsViable(branches[i].hand_info)
         \o extendBranchesViable(branches, i + 1)

satisfyConstraintsViable(self) ==
    IF Cardinality(self.possible_cards) < num_unknown_cards(self) THEN <<>>
    ELSE IF Len(self.constraint_list) = 0 THEN <<self>>
    ELSE IF meetsConstraint(self.known_cards,
                            self.constraint_list[Len(self.constraint_list)])
      THEN satisfyConstraintsViable(popConstraint(self))
    ELSE extendBranchesViable(splitBranches(self), 1)

RECURSIVE satisfyConstraints(_), extendBranches(_, _)
\* hand_infos.extend(hand_info.satisfyConstraints()) for each branch from i on
extendBranches(branches, i) ==
    IF i > Len(branches) THEN <<>>
    ELSE satisfyConstraints(branches[i].hand_info)
         \o extendBranches(branches, i + 1)

satisfyConstraints(self) ==
    IF Len(self.constraint_list) = 0 THEN <<self>>
    ELSE IF meetsConstraint(self.known_cards,
                            self.constraint_list[Len(self.constraint_list)])
      THEN satisfyConstraints(popConstraint(self))
    ELSE extendBranches(splitBranches(self), 1)

-----------------------------------------------------------------------------
(* The hand-level specification: a hand is constructed, then changed and   *)
(* queried through the methods of HandInformation.                         *)

NoCall == [op |-> "none", val |-> <<>>]

\* A variable that a specification does not use.
Unused == <<>>

\* The constraints of at most n card entries.
ConstraintsUpTo(n) == SeqsUpTo(Cards, n)

\* The card entries of a constraint list.
RECURSIVE ConstraintCards(_)
ConstraintCards(constraint_list) ==
    IF Len(constraint_list) = 0 THEN 0
    ELSE (IF Len(Head(constraint_list)) = 0 THEN 1
          ELSE Len(Head(constraint_list)))
         + ConstraintCards(Tail(constraint_list))

Init ==
    /\ \E hand_size \in 0..MaxHandSize, known_cards \in SUBSET Cards,
          possible_cards \in SUBSET Cards :
          /\ known_cards \cap possible_cards = {}
          /\ subject = HandInformation(hand_size, known_cards, possible_cards)
    /\ ret = NoCall
    /\ players = Unused
    /\ counted = Unused
    /\ count_args = Unused
    /\ game = Unused
    /\ ml = Unused
    /\ spent = Unused
    /\ cache_size_on_last_load = Unused
    /\ cache_file = Unused
    /\ cache = {}

AddConstraint ==
    /\ ret.op = "none"
    /\ ConstraintCards(subject.constraint_list) < MaxConstraintCards
    /\ \E constraint \in ConstraintsUpTo(MaxConstraintCards
                                          - ConstraintCards(subject.constraint_list)) :
          subject' = addConstraint(subject, constraint)
    /\ UNCHANGED <<players, counted, count_args, cache, ret, game, ml, spent,
                  cache_size_on_last_load, cache_file>>

SatisfyConstraints ==
    /\ ret.op = "none"
    /\ ret' = [op |-> "satisfyConstraints", val |-> satisfyConstraints(subject)]
    /\ UNCHANGED <<subject, players, counted, count_args, cache, game, ml, spent,
                  cache_size_on_last_load, cache_file>>

GetPossibleHands ==
    /\ ret.op = "none"
    /\ ret' = [op |-> "getPossibleHands", val |-> getPossibleHands(subject)]
    /\ UNCHANGED <<subject, players, counted, count_args, cache, game, ml, spent,
                  cache_size_on_last_load, cache_file>>

Next ==
    \/ AddConstraint
    \/ SatisfyConstraints
    \/ GetPossibleHands

Spec == Init /\ [][Next]_vars

-----------------------------------------------------------------------------
(* Full-hand completions, the yardstick of the resolver claims.            *)

\* The full hands of h: known_cards plus num_unknown_cards possible cards.
Completions(h) ==
    IF num_unknown_cards(h) < 0 THEN {}
    ELSE {h.known_cards \cup T :
              T \in combinations(h.possible_cards, num_unknown_cards(h))}

\* The full hands of h that hold a card of every constraint of h.
SatisfyingCompletions(h) ==
    {H \in Completions(h) :
        \A k \in 1..Len(h.constraint_list) :
            meetsConstraint(H, h.constraint_list[k])}

LastConstraint(h) == h.constraint_list[Len(h.constraint_list)]

\* satisfyConstraints splits the last constraint of h into branches.
Splits(h) ==
    /\ Len(h.constraint_list) > 0
    /\ ~meetsConstraint(h.known_cards, LastConstraint(h))

\* C1: the completions of the hands satisfyConstraints returns are, taken
\* together, exactly the completions of the hand that meet every constraint,
\* which are the hands getPossibleHands enumerates.
C1_ResolverComplete ==
    (/\ ret.op = "satisfyConstraints"
     /\ subject.known_cards \cap subject.possible_cards = {}
     /\ Cardinality(subject.known_cards) <= subject.hand_size)
    => /\ UNION {Completions(ret.val[i]) : i \in 1..Len(ret.val)}
            = SatisfyingCompletions(subject)
       /\ UNION {Completions(ret.val[i]) : i \in 1..Len(ret.val)}
            = {g.known_cards : g \in Range(getPossibleHands(subject))}

\* C1 witness: a hand with two constraints was resolved into several hands
\* and has completions that meet the constraints and completions that do not.
C1_Witness ==
    /\ ret.op = "satisfyConstraints"
    /\ Cardinality(subject.known_cards) <= subject.hand_size
    /\ Len(subject.constraint_list) = 2
    /\ Len(ret.val) >= 2
    /\ SatisfyingCompletions(subject) # {}
    /\ SatisfyingCompletions(subject) # Completions(subject)

\* The card of a branch is known in h and none of the cards branched on
\* before it is known or possible in h.
BranchShape(branch, h) ==
    /\ branch.card \in h.known_cards
    /\ \A k \in 1..Len(branch.old_cards) :
          branch.old_cards[k] \notin h.known_cards \cup h.possible_cards

\* C2: no full hand completes two of the hands satisfyConstraints returns;
\* each branch of a split holds its card and has the cards branched on
\* before it neither known nor possible, in the branch and in every hand
\* resolved from it.
C2_ResolverDisjoint ==
    ret.op = "satisfyConstraints"
    => /\ \A i, j \in 1..Len(ret.val) :
             i # j => Completions(ret.val[i]) \cap Completions(ret.val[j]) = {}
       /\ Splits(subject)
             => \A b \in 1..Len(splitBranches(subject)) :
                  LET branch == splitBranches(subject)[b]
                  IN /\ BranchShape(branch, branch.hand_info)
                     /\ \A r \in Range(satisfyConstraints(branch.hand_info)) :
                           BranchShape(branch, r)

\* C2 witness: a constraint that lists a card twice was split into two
\* branches and the resolved hands all have completions.
C2_Witness ==
    /\ ret.op = "satisfyConstraints"
    /\ Splits(subject)
    /\ Len(LastConstraint(subject)) > Cardinality(Range(LastConstraint(subject)))
    /\ Len(splitBranches(subject)) = 2
    /\ Len(ret.val) >= 2
    /\ \A i \in 1..Len(ret.val) : Completions(ret.val[i]) # {}


\* The hand is well formed: no card is both known and possible, and no more
\* cards are known than the hand holds.
WellFormed(h) ==
    /\ h.known_cards \cap h.possible_cards = {}
    /\ Cardinality(h.known_cards) <= h.hand_size

\* Some choice of at most num_unknown_cards possible cards, added to the
\* known cards, holds a card of every constraint of h.
ConstraintsSatisfiable(h) ==
    \E X \in SUBSET h.possible_cards :
        /\ Cardinality(X) <= num_unknown_cards(h)
        /\ \A k \in 1..Len(h.constraint_list) :
              meetsConstraint(h.known_cards \cup X, h.constraint_list[k])

\* C11 as stated: a hand without a full-hand completion that meets all of
\* its constraints, too few possible cards included, resolves to the empty
\* list.
C11_UnsatisfiableResolvesToNothing ==
    (ret.op = "satisfyConstraints" /\ WellFormed(subject)
     /\ SatisfyingCompletions(subject) = {})
    => ret.val = <<>>

\* C11 amended: satisfyConstraints returns the empty list exactly when the
\* constraints cannot be met within the free slots of the hand; a hand that
\* only has too few possible cards to fill its slots is still resolved.
C11_UnsatisfiableConstraintsResolveToNothing ==
    (ret.op = "satisfyConstraints" /\ WellFormed(subject))
    => (ret.val = <<>> <=> ~ConstraintsSatisfiable(subject))

\* C11 witness: every constraint alone could be met by a possible card, but
\* the hand has too few free slots for both, and the result is empty.
C11_Witness ==
    /\ ret.op = "satisfyConstraints"
    /\ WellFormed(subject)
    /\ Len(subject.constraint_list) = 2
    /\ \A k \in 1..2 :
          meetsConstraint(subject.possible_cards, subject.constraint_list[k])
    /\ num_unknown_cards(subject) > 0
    /\ ~ConstraintsSatisfiable(subject)
    /\ ret.val = <<>>


\* C19: satisfyConstraints on a hand with an empty constraint_list returns
\* exactly one hand, with the hand_size, known_cards, possible_cards and
\* empty constraint_list of the input.
C19_ResolverIdempotent ==
    (ret.op = "satisfyConstraints" /\ Len(subject.constraint_list) = 0)
    => /\ Len(ret.val) = 1
       /\ ret.val[1].hand_size = subject.hand_size
       /\ ret.val[1].known_cards = subject.known_cards
       /\ ret.val[1].possible_cards = subject.possible_cards
       /\ ret.val[1].constraint_list = <<>>

\* C19 witness: a hand without constraints, with a known card and fewer
\* possible cards than free slots, was resolved to one hand.
C19_Witness ==
    /\ ret.op = "satisfyConstraints"
    /\ Len(subject.constraint_list) = 0
    /\ subject.known_cards # {}
    /\ Cardinality(subject.possible_cards) < num_unknown_cards(subject)
    /\ Len(ret.val) = 1

\* every constraint of the hand holds one of its known cards
AllMetByKnown(h) ==
    \A k \in 1..Len(h.constraint_list) :
        Range(h.constraint_list[k]) \cap h.known_cards # {}

\* C31: when the last constraint of the hand holds a known card, the hand
\* resolves to what it resolves to without that constraint, and when every
\* constraint holds a known card it resolves to one hand, with its
\* hand_size, known_cards and possible_cards and no constraint.
C31_SatisfiedConstraintsDoNotBranch ==
    (ret.op = "satisfyConstraints" /\ Len(subject.constraint_list) > 0)
    => /\ Range(LastConstraint(subject)) \cap subject.known_cards # {}
            => ret.val = satisfyConstraints(popConstraint(subject))
       /\ AllMetByKnown(subject)
            => ret.val = <<[subject EXCEPT !.constraint_list = <<>>]>>

\* C31 witness: a hand with a free slot and two constraints, both holding
\* a known card and one a possible card too, resolved.
C31_Witness ==
    /\ ret.op = "satisfyConstraints"
    /\ Len(subject.constraint_list) = 2
    /\ AllMetByKnown(subject)
    /\ num_unknown_cards(subject) > 0
    /\ \E k \in 1..2 :
          Range(subject.constraint_list[k]) \cap subject.possible_cards # {}
    /\ Len(ret.val) = 1

-----------------------------------------------------------------------------
(* satisfyAllConstraints.                                                  *)

\* most players handed to satisfyAllConstraints
MaxPlayers == 3

\* itertools.product(*lists): every choice of one element per list, the
\* last list varying fastest.
RECURSIVE product(_)
RECURSIVE prependEach(_, _, _)
prependEach(first, rest, i) ==
    IF i > Len(first) THEN <<>>
    ELSE [k \in 1..Len(rest) |-> <<first[i]>> \o rest[k]]
         \o prependEach(first, rest, i + 1)

product(lists) ==
    IF Len(lists) = 0 THEN << <<>> >>
    ELSE prependEach(Head(lists), product(Tail(lists)), 1)

\* validSet with only neighbouring hands compared.
validSetNeighbours(hand_set, i, all_known_cards) ==
    \A k \in 1..(Len(hand_set) - 1) :
        hand_set[k].known_cards \cap hand_set[k + 1].known_cards = {}

\* "Ensure no two players share a card": the scan of hand_set from
\* position i on, all_known_cards holding the known cards seen before.
RECURSIVE validSet(_, _, _)
validSet(hand_set, i, all_known_cards) ==
    IF i > Len(hand_set) THEN TRUE
    ELSE IF hand_set[i].known_cards \cap all_known_cards # {} THEN FALSE
    ELSE validSet(hand_set, i + 1,
                  all_known_cards \cup hand_set[i].known_cards)

\* removeOtherKnown that also skips the hand after a skipped hand.
removeOtherKnownSkipNext(new_hand, hand, hand_set, j) ==
    [new_hand EXCEPT !.possible_cards =
        @ \ UNION {hand_set[k].known_cards :
                      k \in {m \in 1..Len(hand_set) :
                                /\ hand_set[m] # hand
                                /\ (m > 1 => hand_set[m - 1] # hand)}}]

\* The inner loop over other_hand from position j on: the known cards of
\* every hand of hand_set that is not equal (==) to hand are removed from
\* the possible cards of new_hand.
RECURSIVE removeOtherKnown(_, _, _, _)
removeOtherKnown(new_hand, hand, hand_set, j) ==
    IF j > Len(hand_set) THEN new_hand
    ELSE IF hand_set[j] = hand
      THEN removeOtherKnown(new_hand, hand, hand_set, j + 1)
    ELSE removeOtherKnown(
             [new_hand EXCEPT !.possible_cards = @ \ hand_set[j].known_cards],
             hand, hand_set, j + 1)

\* The new list of hands built from a valid hand_set.
tightened(hand_set) ==
    [i \in 1..Len(hand_set) |->
        removeOtherKnown(hand_set[i], hand_set[i], hand_set, 1)]

\* individual_constraints
individualConstraints(hands) ==
    [i \in 1..Len(hands) |-> satisfyConstraints(hands[i])]

satisfyAllConstraints(hands) ==
    LET hand_sets == product(individualConstraints(hands))
        valid_set(hand_set) == validSet(hand_set, 1, {})
        valid_sets == SelectSeq(hand_sets, valid_set)
    IN [k \in 1..Len(valid_sets) |-> tightened(valid_sets[k])]

-----------------------------------------------------------------------------
(* The specification of satisfyAllConstraints: the hands of the players    *)
(* are created as a player creates them (HandInformation(hand_size), every *)
(* card possible), facts are recorded in them through addKnownCard,        *)
(* removePossibleCard and addConstraint, and the hands are resolved        *)
(* together.                                                               *)

\* most facts recorded over all hands: a known card, a card that is not
\* possible, and a card entry of a constraint are one fact each
MaxFacts == 3

\* sum(numbers)
RECURSIVE SumSeq(_)
SumSeq(numbers) ==
    IF Len(numbers) = 0 THEN 0 ELSE Head(numbers) + SumSeq(Tail(numbers))

FactsOf(h) ==
    Cardinality(h.known_cards)
    + Cardinality(Cards \ (h.known_cards \cup h.possible_cards))
    + ConstraintCards(h.constraint_list)

Facts(hands) == SumSeq([i \in 1..Len(hands) |-> FactsOf(hands[i])])

InitAll ==
    /\ \E n \in 1..MaxPlayers :
          players = [i \in 1..n |-> HandInformation(MaxHandSize, {}, Cards)]
    /\ ret = NoCall
    /\ subject = Unused
    /\ counted = Unused
    /\ count_args = Unused
    /\ game = Unused
    /\ ml = Unused
    /\ spent = Unused
    /\ cache_size_on_last_load = Unused
    /\ cache_file = Unused
    /\ cache = {}

PlayerAddKnownCard ==
    /\ ret.op = "none"
    /\ Facts(players) < MaxFacts
    /\ \E p \in 1..Len(players), card \in Cards :
          players' = [players EXCEPT ![p] = addKnownCard(@, card)]
    /\ UNCHANGED <<subject, counted, count_args, cache, ret, game, ml, spent,
                  cache_size_on_last_load, cache_file>>

PlayerRemovePossibleCard ==
    /\ ret.op = "none"
    /\ Facts(players) < MaxFacts
    /\ \E p \in 1..Len(players), card \in Cards :
          players' = [players EXCEPT ![p] = removePossibleCard(@, card)]
    /\ UNCHANGED <<subject, counted, count_args, cache, ret, game, ml, spent,
                  cache_size_on_last_load, cache_file>>

\* The constraints the players of a game record: the cards of a guess, in
\* any order and without a repeated card.
SetConstraintsUpTo(n) ==
    {constraint \in ConstraintsUpTo(n) \ {<<>>} :
        Cardinality(Range(constraint)) = Len(constraint)}

PlayerAddConstraint ==
    /\ ret.op = "none"
    /\ Facts(players) < MaxFacts
    /\ \E p \in 1..Len(players),
          constraint \in SetConstraintsUpTo(MaxFacts - Facts(players)) :
          players' = [players EXCEPT ![p] = addConstraint(@, constraint)]
    /\ UNCHANGED <<subject, counted, count_args, cache, ret, game, ml, spent,
                  cache_size_on_last_load, cache_file>>

SatisfyAllConstraints ==
    /\ ret.op = "none"
    /\ ret' = [op |-> "satisfyAllConstraints",
               val |-> satisfyAllConstraints(players)]
    /\ UNCHANGED <<subject, players, counted, count_args, cache, game, ml, spent,
                  cache_size_on_last_load, cache_file>>

NextAll ==
    \/ PlayerAddKnownCard
    \/ PlayerRemovePossibleCard
    \/ PlayerAddConstraint
    \/ SatisfyAllConstraints

SpecAll == InitAll /\ [][NextAll]_vars

\* The choices of one resolved hand per player, as index tuples.
Choices(hands) ==
    LET resolved(i) == Len(satisfyConstraints(hands[i]))
        most == CHOOSE m \in {resolved(i) : i \in 1..Len(hands)} :
                    \A i \in 1..Len(hands) : resolved(i) <= m
    IN {f \in [1..Len(hands) -> 1..most] :
           \A i \in 1..Len(hands) : f[i] <= resolved(i)}

Chosen(hands, f) == [i \in 1..Len(hands) |-> satisfyConstraints(hands[i])[f[i]]]

KnownDisjoint(hand_set) ==
    \A i, j \in 1..Len(hand_set) :
        i # j => hand_set[i].known_cards \cap hand_set[j].known_cards = {}

\* f comes before g in the order of itertools.product
ProductBefore(f, g) ==
    \E i \in DOMAIN f : f[i] < g[i] /\ \A k \in 1..(i - 1) : f[k] = g[k]

KnownOf(hand_list) == [i \in 1..Len(hand_list) |-> hand_list[i].known_cards]

\* C9: satisfyAllConstraints returns one combination for each choice of one
\* resolved hand per player whose known cards are pairwise disjoint, and no
\* other; a combination has the chosen hands' sizes and known cards, player
\* by player in input order, and the combinations come in product order.
C9_EnumeratorExact ==
    ret.op = "satisfyAllConstraints"
    => LET good == {f \in Choices(players) :
                       KnownDisjoint(Chosen(players, f))}
       IN /\ Len(ret.val) = Cardinality(good)
          /\ \A f \in good :
                LET n == 1 + Cardinality({g \in good : ProductBefore(g, f)})
                    hand_set == Chosen(players, f)
                IN /\ Len(ret.val[n]) = Len(players)
                   /\ \A i \in 1..Len(players) :
                         /\ ret.val[n][i].known_cards = hand_set[i].known_cards
                         /\ ret.val[n][i].hand_size = hand_set[i].hand_size
                         /\ ret.val[n][i].constraint_list = <<>>
                         /\ ret.val[n][i].possible_cards
                               \subseteq hand_set[i].possible_cards
          /\ (\E i \in 1..Len(players) :
                 satisfyConstraints(players[i]) = <<>>) => ret.val = <<>>

\* C9 witness: three players, some choices kept and some dropped because
\* the first and the third chosen hand share a known card.
C9_Witness ==
    /\ ret.op = "satisfyAllConstraints"
    /\ Len(players) = 3
    /\ Len(ret.val) >= 1
    /\ \E f \in Choices(players) :
          LET hand_set == Chosen(players, f)
          IN /\ hand_set[1].known_cards \cap hand_set[3].known_cards # {}
             /\ hand_set[1].known_cards \cap hand_set[2].known_cards = {}
             /\ hand_set[2].known_cards \cap hand_set[3].known_cards = {}

\* C10: in every combination returned, no known card of one hand is a
\* possible or known card of a hand at another position.
C10_MutualTightening ==
    ret.op = "satisfyAllConstraints"
    => \A n \in 1..Len(ret.val) :
         \A i, j \in 1..Len(ret.val[n]) :
           i # j => ret.val[n][j].known_cards
                      \cap (ret.val[n][i].possible_cards
                            \cup ret.val[n][i].known_cards) = {}

\* C10 witness: a combination with two structurally equal hands next to a
\* hand with a known card.
C10_Witness ==
    /\ ret.op = "satisfyAllConstraints"
    /\ \E n \in 1..Len(ret.val) :
          \E i, j, k \in 1..Len(ret.val[n]) :
             /\ i # j
             /\ ret.val[n][i] = ret.val[n][j]
             /\ ret.val[n][k].known_cards # {}

\* known_cards and possible_cards of a hand share no card
Disjoint(h) == h.known_cards \cap h.possible_cards = {}

\* C23: every hand that starts with disjoint known and possible cards keeps
\* them disjoint through every sequence of addKnownCard, removePossibleCard
\* and addConstraint, and so does every hand that satisfyConstraints returns
\* for it and every hand of every combination of satisfyAllConstraints.
C23_KnownPossibleDisjoint ==
    /\ \A p \in 1..Len(players) :
          /\ Disjoint(players[p])
          /\ LET resolved == satisfyConstraints(players[p])
             IN \A k \in 1..Len(resolved) : Disjoint(resolved[k])
    /\ ret.op = "satisfyAllConstraints"
         => \A n \in 1..Len(ret.val) :
               \A i \in 1..Len(ret.val[n]) : Disjoint(ret.val[n][i])

\* C23 witness: a hand with a known card, another hand that a constraint
\* resolves into two hands with a new known card each, and a combination
\* returned for them.
C23_Witness ==
    /\ ret.op = "satisfyAllConstraints"
    /\ Len(ret.val) >= 1
    /\ \E p, q \in 1..Len(players) :
          /\ players[p].known_cards # {}
          /\ players[q].known_cards = {}
          /\ Len(satisfyConstraints(players[q])) >= 2
          /\ \A k \in 1..Len(satisfyConstraints(players[q])) :
                satisfyConstraints(players[q])[k].known_cards # {}

\* num_unknown_cards of the hand is not negative
Fits(h) == Cardinality(h.known_cards) <= h.hand_size

\* C24: every hand reached through addKnownCard, removePossibleCard and
\* addConstraint, and every hand satisfyConstraints returns for it, has at
\* most hand_size known cards.
C24_KnownWithinHandSize ==
    \A p \in 1..Len(players) :
        /\ Fits(players[p])
        /\ LET resolved == satisfyConstraints(players[p])
           IN \A k \in 1..Len(resolved) : Fits(resolved[k])

-----------------------------------------------------------------------------
(* GameStateCounter.  The cache is a set of entries [key, count]; a call   *)
(* returns the value, the exception it raised if any, and the cache it     *)
(* leaves.                                                                 *)

\* HandInformation.__lt__
lessThan(self, other) ==
    comb(Cardinality(self.possible_cards), num_unknown_cards(self))
      < comb(Cardinality(other.possible_cards), num_unknown_cards(other))

\* sorted(): a stable sort that compares with __lt__ only.  insertSorted
\* puts h behind every hand of the sorted list that is not greater.
RECURSIVE insertSorted(_, _)
insertSorted(list, h) ==
    IF Len(list) = 0 THEN <<h>>
    ELSE IF lessThan(h, Head(list)) THEN <<h>> \o list
    ELSE <<Head(list)>> \o insertSorted(Tail(list), h)

RECURSIVE sorted(_)
sorted(list) ==
    IF Len(list) = 0 THEN <<>>
    ELSE insertSorted(sorted(SubSeq(list, 1, Len(list) - 1)), list[Len(list)])

\* The subset the loop over subset_terms leaves: the cards of the superset
\* that are possible in the hands with term 1 and in no hand with term 0.
subsetOf(order_to_add, subset_terms) ==
    {c \in UNION {order_to_add[ix].possible_cards : ix \in 1..Len(order_to_add)} :
        \A ix \in 1..Len(order_to_add) :
            (subset_terms[ix] = 1) <=> (c \in order_to_add[ix].possible_cards)}

\* getCacheKey with the subset sizes left out.
getCacheKeySizesOnly(hands) ==
    [i \in 1..Len(hands) |-> num_unknown_cards(sorted(hands)[i])]

getCacheKey(hands) ==
    LET order_to_add == sorted(hands)
        terms == product([i \in 1..Len(order_to_add) |-> <<0, 1>>])
    IN [i \in 1..Len(order_to_add) |-> num_unknown_cards(order_to_add[i])]
       \o [k \in 1..Len(terms) |->
              Cardinality(subsetOf(order_to_add, terms[k]))]

\* key in self.cache, never true.
inCacheNever(memo, key) == FALSE

inCache(memo, key) == \E e \in memo : e.key = key

cached(memo, key) == (CHOOSE e \in memo : e.key = key).count

\* self.cache[key] = count with the other keys dropped.
storeEvicting(memo, key, count) ==
    {[key |-> key, count |-> count, writes |-> 1]}

\* self.cache[key] = count.  The field writes of an entry is the number of
\* assignments the key has had.
store(memo, key, count) ==
    {e \in memo : e.key # key}
    \cup {[key |-> key, count |-> count,
           writes |-> IF inCache(memo, key)
                        THEN (CHOOSE e \in memo : e.key = key).writes + 1
                      ELSE 1]}

\* hand_to_iterate['idx']: the first hand with the fewest possible hands.
handToIterate(hands) ==
    CHOOSE ix \in 1..Len(hands) :
        /\ \A k \in 1..Len(hands) :
              numPossibleHands(hands[ix]) <= numPossibleHands(hands[k])
        /\ \A k \in 1..(ix - 1) :
              numPossibleHands(hands[k]) > numPossibleHands(hands[ix])

\* new_args: the hands other than idx, without the cards of hand_set.
newArgs(hands, idx, hand_set) ==
    LET rest == SubSeq(hands, 1, idx - 1) \o SubSeq(hands, idx + 1, Len(hands))
    IN [i \in 1..Len(rest) |->
           HandInformation(rest[i].hand_size, rest[i].known_cards,
                           rest[i].possible_cards \ hand_set)]

RECURSIVE countPossibleStates(_, _), countLoop(_, _, _, _, _, _)
\* The loop over the hands of player idx, from the i-th combination on.
countLoop(hands, idx, combos, i, count, memo) ==
    IF i > Len(combos) THEN [val |-> count, err |-> "", cache |-> memo]
    ELSE Once(countPossibleStates(newArgs(hands, idx, combos[i]), memo),
              LAMBDA sub :
                  IF sub.err # "" THEN sub
                  ELSE countLoop(hands, idx, combos, i + 1, count + sub.val,
                                 sub.cache))

countPossibleStates(hands, memo) ==
    IF \E i \in 1..Len(hands) : Len(hands[i].constraint_list) > 0
      THEN [val |-> 0, err |-> "ValueError", cache |-> memo]
    ELSE IF Len(hands) = 1
      THEN [val |-> numPossibleHands(hands[1]), err |-> "", cache |-> memo]
    ELSE IF inCache(memo, getCacheKey(hands))
      THEN [val |-> cached(memo, getCacheKey(hands)), err |-> "", cache |-> memo]
    ELSE IF Len(hands) = 0
      THEN [val |-> 0, err |-> "IndexError", cache |-> memo]
    ELSE LET idx == handToIterate(hands)
         IN IF num_unknown_cards(hands[idx]) < 0
              THEN [val |-> 0, err |-> "ValueError", cache |-> memo]
            ELSE Once(SetToSeq(combinations(hands[idx].possible_cards,
                                            num_unknown_cards(hands[idx]))),
                      LAMBDA combos :
                        Once(countLoop(hands, idx, combos, 1, 0, memo),
                             LAMBDA done :
                               IF done.err # "" THEN done
                               ELSE [val |-> done.val, err |-> "",
                                     cache |-> store(done.cache,
                                                     getCacheKey(hands),
                                                     done.val)]))

-----------------------------------------------------------------------------
(* The specification of the counter: a list of constraint-free hands is    *)
(* made, hand by hand and possible card by possible card, and counted      *)
(* with the cache empty.                                                   *)

\* most hands handed to countPossibleStates
MaxCountHands == 3
\* most possible cards over all hands handed to countPossibleStates
MaxPoolCards == 6

PoolCards(hands) ==
    SumSeq([i \in 1..Len(hands) |-> Cardinality(hands[i].possible_cards)])

InitCount ==
    /\ count_args = <<>>
    /\ cache = {}
    /\ ret = NoCall
    /\ subject = Unused
    /\ players = Unused
    /\ counted = Unused
    /\ game = Unused
    /\ ml = Unused
    /\ spent = Unused
    /\ cache_size_on_last_load = Unused
    /\ cache_file = Unused

\* HandInformation(hand_size, possible_cards=set()) joins the list
AddHand ==
    /\ ret.op = "none"
    /\ Len(count_args) < MaxCountHands
    /\ \E hand_size \in 1..MaxHandSize :
          /\ Len(count_args) > 0 => hand_size = count_args[1].hand_size
          /\ count_args' = Append(count_args, HandInformation(hand_size, {}, {}))
    /\ UNCHANGED <<subject, players, counted, cache, ret, game, ml, spent,
                  cache_size_on_last_load, cache_file>>

\* one more card in the possible_cards the last hand is made with
AddPossibleCard ==
    /\ ret.op = "none"
    /\ Len(count_args) > 0
    /\ PoolCards(count_args) < MaxPoolCards
    /\ \E card \in Cards :
          /\ card \notin count_args[Len(count_args)].possible_cards
          /\ count_args' = [count_args EXCEPT ![Len(count_args)].possible_cards
                                                  = @ \cup {card}]
    /\ UNCHANGED <<subject, players, counted, cache, ret, game, ml, spent,
                  cache_size_on_last_load, cache_file>>

CountPossibleStates ==
    /\ ret.op = "none"
    /\ Len(count_args) > 0
    /\ \E call \in {countPossibleStates(count_args, cache)} :
          /\ ret' = [op |-> "countPossibleStates",
                     val |-> call.val, err |-> call.err]
          /\ cache' = call.cache
    /\ UNCHANGED <<subject, players, counted, count_args, game, ml, spent,
                  cache_size_on_last_load, cache_file>>

NextCount ==
    \/ AddHand
    \/ AddPossibleCard
    \/ CountPossibleStates

SpecCount == InitCount /\ [][NextCount]_vars

\* The ways to give every hand of the list num_unknown_cards of its
\* possible cards: the tuples over the hands 1..n.
RECURSIVE Fillings(_, _)
Fillings(hands, n) ==
    IF n = 0 THEN {<<>>}
    ELSE {Append(t, S) :
             t \in Fillings(hands, n - 1),
             S \in combinations(hands[n].possible_cards,
                                num_unknown_cards(hands[n]))}

\* The fillings in which no card is given to two hands.
DisjointFillings(hands) ==
    {t \in Fillings(hands, Len(hands)) :
        \A i, j \in 1..Len(hands) : i # j => t[i] \cap t[j] = {}}

-----------------------------------------------------------------------------
(* The specification of the cache: lists of hands are made one after the   *)
(* other and each is counted, again and in another order, while the        *)
(* counter keeps its cache.                                                *)

\* most hands of a list
MaxCacheHands == 3
\* most hands, possible cards and constraints the lists were made of since
\* the cache was made
MaxSpent == 7

\* The orders of a list of n hands.
Orders(n) ==
    {p \in [1..n -> 1..n] : \A i, j \in 1..n : i # j => p[i] # p[j]}

\* The list in the order p.
inOrder(hands, p) == [i \in 1..Len(hands) |-> hands[p[i]]]

ConstraintFree(hands) ==
    \A i \in 1..Len(hands) : Len(hands[i].constraint_list) = 0

CountCalls == {"countPossibleStates", "again", "reordered"}

InitCache ==
    /\ count_args = <<>>
    /\ cache = {}
    /\ ret = NoCall
    /\ spent = 0
    /\ cache_size_on_last_load = Unused
    /\ cache_file = Unused
    /\ subject = Unused
    /\ players = Unused
    /\ counted = Unused
    /\ game = Unused
    /\ ml = Unused

\* HandInformation(hand_size, possible_cards=set()) joins the list
CacheAddHand ==
    /\ ret.op = "none"
    /\ Len(count_args) < MaxCacheHands
    /\ ConstraintFree(count_args)
    /\ spent < MaxSpent
    /\ \E hand_size \in 1..MaxHandSize :
          count_args' = Append(count_args, HandInformation(hand_size, {}, {}))
    /\ spent' = spent + 1
    /\ UNCHANGED <<cache_size_on_last_load, cache_file>>
    /\ UNCHANGED <<subject, players, counted, cache, ret, game, ml>>

\* The cards that are possible in a hand of the list.
CardsOf(hands) == UNION {hands[i].possible_cards : i \in 1..Len(hands)}

\* one more card in the possible_cards the last hand is made with: a card
\* of another hand, or the next card no hand of the list has (the counter
\* looks at no card, only at the sizes of sets of cards)
CacheAddPossibleCard ==
    /\ ret.op = "none"
    /\ Len(count_args) > 0
    /\ ConstraintFree(count_args)
    /\ spent < MaxSpent
    /\ \E card \in Cards :
          /\ card \notin count_args[Len(count_args)].possible_cards
          /\ \A c \in Cards : c < card => c \in CardsOf(count_args)
          /\ count_args' = [count_args EXCEPT ![Len(count_args)].possible_cards
                                                  = @ \cup {card}]
    /\ spent' = spent + 1
    /\ UNCHANGED <<cache_size_on_last_load, cache_file>>
    /\ UNCHANGED <<subject, players, counted, cache, ret, game, ml>>

\* addConstraint on the last hand of the list
CacheAddConstraint ==
    /\ ret.op = "none"
    /\ Len(count_args) > 0
    /\ ConstraintFree(count_args)
    /\ spent < MaxSpent
    /\ \E card \in Cards :
          count_args' = [count_args EXCEPT ![Len(count_args)] =
                             addConstraint(@, <<card>>)]
    /\ spent' = spent + 1
    /\ UNCHANGED <<cache_size_on_last_load, cache_file>>
    /\ UNCHANGED <<subject, players, counted, cache, ret, game, ml>>

\* countPossibleStates(count_args)
CacheCount ==
    /\ ret.op = "none"
    /\ Len(count_args) > 0
    /\ \E call \in {countPossibleStates(count_args, cache)} :
          /\ ret' = [op |-> "countPossibleStates",
                     val |-> call.val, err |-> call.err]
          /\ cache' = call.cache
    /\ UNCHANGED <<subject, players, counted, count_args, game, ml, spent,
                  cache_size_on_last_load, cache_file>>

\* countPossibleStates(count_args) once more, right after a call of it
CacheCountAgain ==
    /\ ret.op \in {"countPossibleStates", "again"}
    /\ \E call \in {countPossibleStates(count_args, cache)} :
          /\ ret' = [op |-> "again", val |-> call.val, err |-> call.err]
          /\ cache' = call.cache
    /\ UNCHANGED <<subject, players, counted, count_args, game, ml, spent,
                  cache_size_on_last_load, cache_file>>

\* countPossibleStates of the hands of count_args in another order, after a
\* call with count_args
CacheCountReordered ==
    /\ ret.op \in CountCalls
    /\ \E p \in Orders(Len(count_args)) :
          /\ inOrder(count_args, p) # count_args
          /\ \E call \in {countPossibleStates(inOrder(count_args, p), cache)} :
                /\ ret' = [op |-> "reordered",
                           val |-> call.val, err |-> call.err]
                /\ cache' = call.cache
    /\ UNCHANGED <<subject, players, counted, count_args, game, ml, spent,
                  cache_size_on_last_load, cache_file>>

\* numPossibleHands() of the last hand of the list
NumPossibleHands ==
    /\ ret.op = "none"
    /\ Len(count_args) > 0
    /\ \E call \in {numPossibleHandsCall(count_args[Len(count_args)])} :
          ret' = [op |-> "numPossibleHands",
                  val |-> call.val, err |-> call.err]
    /\ UNCHANGED <<subject, players, counted, count_args, cache, game, ml,
                   spent,
                                 cache_size_on_last_load, cache_file>>

\* the caller turns to another list of hands
CacheNewList ==
    /\ ret.op # "none"
    /\ count_args' = <<>>
    /\ ret' = NoCall
    /\ UNCHANGED <<subject, players, counted, cache, game, ml, spent,
                  cache_size_on_last_load, cache_file>>

NextCache ==
    \/ CacheAddHand
    \/ CacheAddPossibleCard
    \/ CacheAddConstraint
    \/ CacheCount
    \/ CacheCountAgain
    \/ CacheCountReordered
    \/ NumPossibleHands
    \/ CacheNewList

SpecCache == InitCache /\ [][NextCache]_vars

\* C12: the key of a list of constraint-free hands is the key of the list
\* in every other order.
C12_KeyOrderInvariant ==
    ConstraintFree(count_args)
    => \A p \in Orders(Len(count_args)) :
          getCacheKey(inOrder(count_args, p)) = getCacheKey(count_args)

\* The number of collision-free completions of the list.
TrueCount(hands) == Cardinality(DisjointFillings(hands))

\* C13: whatever calls were made since the cache was empty, a count that
\* countPossibleStates returns is the number of collision-free completions
\* of the list, and so is the count of every cache entry under the key of
\* the list in any order.
C13_CacheSound ==
    /\ (ret.op \in CountCalls /\ ret.err = "")
       => ret.val = TrueCount(count_args)
    /\ (Len(count_args) >= 2 /\ ConstraintFree(count_args))
       => \A p \in Orders(Len(count_args)) :
             \A e \in cache :
                e.key = getCacheKey(inOrder(count_args, p))
                => e.count = TrueCount(count_args)

\* C13 witness: the cache holds an entry of an earlier list, and the call
\* with a list of two hands and the call with its hands the other way
\* round share one more entry, with a count that is not zero.
C13_Witness ==
    /\ ret.op = "reordered"
    /\ Len(count_args) = 2
    /\ ret.val > 0
    /\ Cardinality(cache) = 2
    /\ \E e \in cache : e.key # getCacheKey(count_args)
    /\ getCacheKey(<<count_args[2], count_args[1]>>) = getCacheKey(count_args)

\* C14: a call with the hands of a counted list in another order returns
\* the value the call with the list returned, whatever the cache holds.
C14_CountOrderIndependent ==
    [][(ret'.op = "reordered" /\ ConstraintFree(count_args))
       => (ret'.err = "" /\ ret.err = "" /\ ret'.val = ret.val)]_vars

\* C14 witness: three hands were counted in another order with a count
\* that is not zero, two of them with the same number of possible hands.
C14_Witness ==
    /\ ret.op = "reordered"
    /\ Len(count_args) = 3
    /\ ret.val > 0
    /\ \E i, j \in 1..3 :
          /\ i # j
          /\ numPossibleHands(count_args[i]) = numPossibleHands(count_args[j])

\* C15: no step takes an entry out of the cache or changes its count, and
\* no key is assigned more than once.
C15_CacheMonotone ==
    [][/\ \A e \in cache : e \in cache'
       /\ \A e \in cache' : e.writes = 1]_vars

\* C15 witness: the cache holds three entries after a repeated call.
C15_Witness ==
    /\ ret.op = "again"
    /\ Cardinality(cache) >= 3

\* C16: the second call with the same list of two or more hands finds the
\* key of the list in the cache, returns the value of the first call and
\* leaves the cache as it is.
C16_CacheHit ==
    [][(ret'.op = "again" /\ Len(count_args) >= 2
          /\ ConstraintFree(count_args))
       => /\ inCache(cache, getCacheKey(count_args))
          /\ ret'.err = ""
          /\ ret'.val = ret.val
          /\ cache' = cache]_vars

\* C16 witness: a list of two hands of different sizes was counted twice,
\* with a count that is not zero.
C16_Witness ==
    /\ ret.op = "again"
    /\ Len(count_args) = 2
    /\ count_args[1].hand_size # count_args[2].hand_size
    /\ ret.val > 0

\* C17: a call of countPossibleStates with a hand that has a constraint
\* raises ValueError and leaves the cache as it is, and numPossibleHands of
\* a hand that has a constraint raises ValueError.
C17_ConstrainedRejected ==
    [][/\ (ret'.op \in CountCalls /\ ~ConstraintFree(count_args))
          => (ret'.err = "ValueError" /\ cache' = cache)
       /\ (ret'.op = "numPossibleHands"
             /\ Len(count_args[Len(count_args)].constraint_list) > 0)
          => ret'.err = "ValueError"]_vars

\* C17 witness: a list of two hands, the last one with a constraint and
\* with possible cards, was refused while the cache held an entry.
C17_Witness ==
    /\ ret.op = "countPossibleStates"
    /\ ret.err = "ValueError"
    /\ Len(count_args) = 2
    /\ count_args[2].possible_cards # {}
    /\ cache # {}

-----------------------------------------------------------------------------
(* countPlayerPossibilities.  The dictionary it returns has one key per    *)
(* hand object of getPossibleHands (the hands hash by identity); it is     *)
(* modelled as the sequence of the entries [hand, count] in the order the  *)
(* keys were inserted.                                                     *)

\* conflicts that never finds a conflict.
conflictsNever(candidate, hand_list) == FALSE

\* conflicts that looks at the first hand of the list only.
conflictsFirstHand(candidate, hand_list) ==
    \E card \in candidate.known_cards : card \in hand_list[1].known_cards

\* "Ensure the envelope hand doesn't conflict with the hand list"
conflicts(candidate, hand_list) ==
    \E card \in candidate.known_cards :
        \E k \in 1..Len(hand_list) : card \in hand_list[k].known_cards

\* newHands that forgets to remove the cards of the candidate.
newHandsKeepCards(candidate, hand_list) == hand_list

\* new_hands: copies of the hands of hand_list without the cards of the
\* candidate as possible cards.
newHands(candidate, hand_list) ==
    [k \in 1..Len(hand_list) |->
        [hand_list[k] EXCEPT !.possible_cards = @ \ candidate.known_cards]]

\* The loop over hand_lists for one candidate, from position j on.
RECURSIVE handListLoop(_, _, _, _, _)
handListLoop(candidate, hand_lists, j, num, memo) ==
    IF j > Len(hand_lists) THEN [val |-> num, err |-> "", cache |-> memo]
    ELSE IF conflicts(candidate, hand_lists[j])
      THEN handListLoop(candidate, hand_lists, j + 1, num, memo)
    ELSE Once(countPossibleStates(newHands(candidate, hand_lists[j]), memo),
              LAMBDA sub :
                  IF sub.err # "" THEN sub
                  ELSE handListLoop(candidate, hand_lists, j + 1, num + sub.val,
                                    sub.cache))

\* The loop over the hands of player_to_count, from position i on.
RECURSIVE candidateLoop(_, _, _, _, _)
candidateLoop(candidates, hand_lists, i, num_possibilities, memo) ==
    IF i > Len(candidates)
      THEN [val |-> num_possibilities, err |-> "", cache |-> memo]
    ELSE Once(handListLoop(candidates[i], hand_lists, 1, 0, memo),
              LAMBDA one :
                  IF one.err # ""
                    THEN [val |-> num_possibilities, err |-> one.err,
                          cache |-> one.cache]
                  ELSE candidateLoop(candidates, hand_lists, i + 1,
                                     Append(num_possibilities,
                                            [hand |-> candidates[i],
                                             count |-> one.val]),
                                     one.cache))

countPlayerPossibilities(the_player, other_players, memo) ==
    IF num_unknown_cards(the_player) < 0
      THEN [val |-> <<>>, err |-> "ValueError", cache |-> memo]
    ELSE Once(satisfyAllConstraints(other_players),
              LAMBDA hand_lists :
                Once(getPossibleHands(the_player),
                     LAMBDA candidates :
                       candidateLoop(candidates, hand_lists, 1, <<>>, memo)))

-----------------------------------------------------------------------------
(* The specification of countPlayerPossibilities: the hand to count and    *)
(* the hands of the other players are created with every card possible,    *)
(* facts are recorded in them, and the possibilities are counted.          *)

\* most other players handed to countPlayerPossibilities
MaxOthers == 2
\* most facts recorded over the hand to count and the other hands
MaxEngineFacts == 2

InitEngine ==
    /\ \E n \in 1..MaxOthers, hand_size \in 1..MaxHandSize :
          /\ players = [i \in 1..n |-> HandInformation(hand_size, {}, Cards)]
          /\ counted = HandInformation(hand_size, {}, Cards)
    /\ cache = {}
    /\ ret = NoCall
    /\ subject = Unused
    /\ count_args = Unused
    /\ game = Unused
    /\ ml = Unused
    /\ spent = Unused
    /\ cache_size_on_last_load = Unused
    /\ cache_file = Unused

\* counted is hand 0, the other players are the hands 1..Len(players)
EngineFacts == FactsOf(counted) + Facts(players)

\* hand p becomes h
EngineRecord(p, h) ==
    /\ counted' = IF p = 0 THEN h ELSE counted
    /\ players' = IF p = 0 THEN players ELSE [players EXCEPT ![p] = h]
    /\ UNCHANGED <<subject, count_args, cache, ret, game, ml, spent,
                  cache_size_on_last_load, cache_file>>

EngineHand(p) == IF p = 0 THEN counted ELSE players[p]

EngineAddKnownCard ==
    /\ ret.op = "none"
    /\ EngineFacts < MaxEngineFacts
    /\ \E p \in 0..Len(players), card \in Cards :
          EngineRecord(p, addKnownCard(EngineHand(p), card))

EngineRemovePossibleCard ==
    /\ ret.op = "none"
    /\ EngineFacts < MaxEngineFacts
    /\ \E p \in 0..Len(players), card \in Cards :
          EngineRecord(p, removePossibleCard(EngineHand(p), card))

EngineAddConstraint ==
    /\ ret.op = "none"
    /\ EngineFacts < MaxEngineFacts
    /\ \E p \in 0..Len(players),
          constraint \in ConstraintsUpTo(MaxEngineFacts - EngineFacts) \ {<<>>} :
          EngineRecord(p, addConstraint(EngineHand(p), constraint))

CountPlayerPossibilities ==
    /\ ret.op = "none"
    /\ \E call \in {countPlayerPossibilities(counted, players, cache)} :
          /\ ret' = [op |-> "countPlayerPossibilities",
                     val |-> call.val, err |-> call.err]
          /\ cache' = call.cache
    /\ UNCHANGED <<subject, players, counted, count_args, game, ml, spent,
                  cache_size_on_last_load, cache_file>>

NextEngine ==
    \/ EngineAddKnownCard
    \/ EngineRemovePossibleCard
    \/ EngineAddConstraint
    \/ CountPlayerPossibilities

SpecEngine == InitEngine /\ [][NextEngine]_vars

\* The ways to complete every hand of the list so that it meets its own
\* constraints: the tuples over the hands 1..n.
RECURSIVE SatisfyingFillings(_, _)
SatisfyingFillings(hands, n) ==
    IF n = 0 THEN {<<>>}
    ELSE {Append(t, H) : t \in SatisfyingFillings(hands, n - 1),
                         H \in SatisfyingCompletions(hands[n])}

\* The joint completions: no card is held by two hands.
JointCompletions(hands) ==
    {t \in SatisfyingFillings(hands, Len(hands)) :
        \A i, j \in 1..Len(hands) : i # j => t[i] \cap t[j] = {}}

\* No hand knows more cards than it holds.
WithinCapacity(hands) ==
    \A i \in 1..Len(hands) : num_unknown_cards(hands[i]) >= 0

\* C4: the keys of countPlayerPossibilities are the completions of the hand
\* to count that meet its constraints, one key each, and the value of a key
\* is the number of joint completions of the other hands that are disjoint
\* from it.
C4_EngineCorrect ==
    (ret.op = "countPlayerPossibilities" /\ WithinCapacity(<<counted>> \o players))
    => /\ ret.err = ""
       /\ {ret.val[i].hand.known_cards : i \in 1..Len(ret.val)}
            = SatisfyingCompletions(counted)
       /\ Len(ret.val) = Cardinality(SatisfyingCompletions(counted))
       /\ \A i \in 1..Len(ret.val) :
            ret.val[i].count
              = Cardinality({t \in JointCompletions(players) :
                               \A k \in 1..Len(players) :
                                   t[k] \cap ret.val[i].hand.known_cards = {}})

\* C4 witness: two other players, one of them with a constraint that is
\* split, and candidates with count 0 and with a count above 0.
C4_Witness ==
    /\ ret.op = "countPlayerPossibilities"
    /\ WithinCapacity(<<counted>> \o players)
    /\ Len(players) = 2
    /\ \E p \in 1..2 : Splits(players[p])
    /\ \E i, j \in 1..Len(ret.val) : ret.val[i].count = 0 /\ ret.val[j].count > 0

\* C5: the counts of all candidates add up to the number of joint
\* completions of the hand to count and the other hands.
C5_Conservation ==
    (ret.op = "countPlayerPossibilities" /\ WithinCapacity(<<counted>> \o players))
    => SumSeq([i \in 1..Len(ret.val) |-> ret.val[i].count])
         = Cardinality(JointCompletions(<<counted>> \o players))

\* C5 witness: several candidates with a count above 0, and a hand to
\* count or another hand with a constraint.
C5_Witness ==
    /\ ret.op = "countPlayerPossibilities"
    /\ WithinCapacity(<<counted>> \o players)
    /\ FactsOf(counted) + Facts(players) > 0
    /\ \E p \in 0..Len(players) : Len(EngineHand(p).constraint_list) > 0
    /\ \E i, j \in 1..Len(ret.val) :
          i # j /\ ret.val[i].count > 0 /\ ret.val[j].count > 0


\* The specified procedure for one candidate: the candidate's cards are
\* removed from the possible cards of clones of the other hands, the
\* clones go through satisfyAllConstraints, the combinations in which a
\* hand knows a card of the candidate are discarded, and the counter is
\* called for each of the others.
SpecifiedCalls(candidate, other_players) ==
    LET clones == [k \in 1..Len(other_players) |->
                      [other_players[k] EXCEPT
                          !.possible_cards = @ \ candidate.known_cards]]
        keep(hand_list) ==
            \A k \in 1..Len(hand_list) :
                hand_list[k].known_cards \cap candidate.known_cards = {}
        kept == SelectSeq(satisfyAllConstraints(clones), keep)
    IN [j \in 1..Len(kept) |-> countPossibleStates(kept[j], {})]

\* The specified procedure: the candidates in their order, each with the
\* calls of the counter made for it.
SpecifiedProcedure(the_player, other_players) ==
    LET candidates == getPossibleHands(the_player)
    IN [i \in 1..Len(candidates) |->
           [hand |-> candidates[i],
            calls |-> SpecifiedCalls(candidates[i], other_players)]]

\* C18: countPlayerPossibilities raises an exception when the specified
\* procedure, which removes the candidate's cards from clones of the other
\* hands before it resolves their constraints, raises one (the hand to
\* count knows more cards than it holds, or the counter raises one), and
\* returns the mapping of that procedure, the sum of the counts for every
\* candidate, when it does not.
C18_ProcedureEquivalent ==
    ret.op = "countPlayerPossibilities"
    => LET specified == SpecifiedProcedure(counted, players)
           raises ==
               \/ num_unknown_cards(counted) < 0
               \/ \E i \in 1..Len(specified) :
                     \E j \in 1..Len(specified[i].calls) :
                        specified[i].calls[j].err # ""
       IN /\ ret.err # "" <=> raises
          /\ ret.err = ""
             => ret.val
                  = [i \in 1..Len(specified) |->
                        [hand |-> specified[i].hand,
                         count |-> SumSeq([j \in 1..Len(specified[i].calls) |->
                                             specified[i].calls[j].val])]]

\* C18 witness: a candidate with a count above 0 holds a card of a
\* constraint of two cards of one of two other players.
C18_Witness ==
    /\ ret.op = "countPlayerPossibilities"
    /\ ret.err = ""
    /\ Len(players) = 2
    /\ \E p \in 1..2, i \in 1..Len(ret.val) :
          /\ Len(players[p].constraint_list) > 0
          /\ Cardinality(Range(players[p].constraint_list[1])) = 2
          /\ Range(players[p].constraint_list[1])
               \cap ret.val[i].hand.known_cards # {}
          /\ ret.val[i].count > 0

-----------------------------------------------------------------------------
(* The game.  The deck is scaled down: NumGamePlayers players instead of   *)
(* the 6 the maximum-likelihood player insists on, and a deck of the three *)
(* cards of the envelope plus one card per player, so that every player is *)
(* dealt GameHandSize = 1 card instead of 3.  Cards are numbers; people    *)
(* come first, then weapons, then rooms.  Players are numbered from 0, as  *)
(* in the code.  None is the empty tuple <<>>.                             *)

\* number of players of a game
NumGamePlayers == 3
\* most calls of runPlayer in a game
MaxTurns == 2
\* HandInformation(hand_size=3) of the envelope: a person, a weapon, a room
EnvelopeSize == 3

DeckSize == EnvelopeSize + NumGamePlayers
GameHandSize == (DeckSize - EnvelopeSize) \div NumGamePlayers

PEOPLE == 1..(DeckSize \div 3)
WEAPONS == (DeckSize \div 3 + 1)..(DeckSize \div 3 + (DeckSize + 1) \div 3)
ROOMS == (DeckSize \div 3 + (DeckSize + 1) \div 3 + 1)..DeckSize
Deck == PEOPLE \cup WEAPONS \cup ROOMS

\* the (person, weapon, room) triples
Guesses == PEOPLE \X WEAPONS \X ROOMS

None == <<>>

PlayerIndices == 0..(NumGamePlayers - 1)

\* [person, weapon, room] of a completed envelope hand
asGuess(guess) ==
    <<CHOOSE x \in guess.known_cards : x \in PEOPLE,
      CHOOSE x \in guess.known_cards : x \in WEAPONS,
      CHOOSE x \in guess.known_cards : x \in ROOMS>>

\* MaximumLikelihoodCluePlayer.__init__
MaximumLikelihoodCluePlayer(player_num) ==
    [player_num |-> player_num,
     hand_infos |-> [ix \in 1..NumGamePlayers |->
                        HandInformation(GameHandSize, {}, Deck)],
     envelope_info |->
        addConstraint(
          addConstraint(
            addConstraint(HandInformation(EnvelopeSize, {}, Deck),
                          SetToSeq(PEOPLE)),
            SetToSeq(WEAPONS)),
          SetToSeq(ROOMS)),
     envelope_counts |-> <<>>,
     accusation |-> None]

\* playerHasCard that leaves the envelope as it is.
playerHasCardNotEnvelope(self, player, card) ==
    [self EXCEPT
       !.hand_infos = [ix \in 1..Len(@) |->
                          IF ix - 1 = player THEN addKnownCard(@[ix], card)
                          ELSE removePossibleCard(@[ix], card)]]

playerHasCard(self, player, card) ==
    [self EXCEPT
       !.hand_infos = [ix \in 1..Len(@) |->
                          IF ix - 1 = player THEN addKnownCard(@[ix], card)
                          ELSE removePossibleCard(@[ix], card)],
       !.envelope_info = removePossibleCard(@, card)]

playerDoesNotHaveCard(self, player, card) ==
    [self EXCEPT !.hand_infos[player + 1] = removePossibleCard(@, card)]

playerHasConstraint(self, player, constraint) ==
    [self EXCEPT !.hand_infos[player + 1] = addConstraint(@, constraint)]

\* The loop over the cards of the guess that stops after the first card.
playerHasNoneOfFirst(self, player, guess) ==
    IF Len(guess) = 0 THEN self
    ELSE [self EXCEPT !.hand_infos[player + 1] =
                          [@ EXCEPT !.possible_cards = @ \ {Head(guess)}]]

\* for card in guess: self.playerDoesNotHaveCard(player, card)
RECURSIVE playerHasNoneOf(_, _, _)
playerHasNoneOf(self, player, guess) ==
    IF Len(guess) = 0 THEN self
    ELSE playerHasNoneOf(playerDoesNotHaveCard(self, player, Head(guess)),
                         player, Tail(guess))

\* A proof is (player, None), (player, card) or (player, True).
NoProof(player) == [player |-> player, kind |-> "None"]
CardProof(player, card) == [player |-> player, kind |-> "card", card |-> card]
TrueProof(player) == [player |-> player, kind |-> "True"]

\* "Update the truth information": the loop over proof_list
RECURSIVE updateTruth(_, _, _)
updateTruth(self, guess, proof_list) ==
    IF Len(proof_list) = 0 THEN self
    ELSE LET p == Head(proof_list)
             next_self ==
                 IF p.kind = "None" THEN playerHasNoneOf(self, p.player, guess)
                 ELSE IF p.kind # "True"
                   THEN playerHasCard(self, p.player, p.card)
                 ELSE playerHasConstraint(self, p.player,
                                          SetToSeq(Range(guess)))
         IN updateTruth(next_self, guess, Tail(proof_list))

\* readyForAccusation with the accusation of the first candidate that has
\* a count above 0, however many there are.
readyForAccusationFirstNonzero(self) ==
    LET nonzero == {i \in 1..Len(self.envelope_counts) :
                       self.envelope_counts[i].count > 0}
    IN IF nonzero = {} THEN self
       ELSE [self EXCEPT !.accusation =
                asGuess(self.envelope_counts[
                    CHOOSE i \in nonzero : \A j \in nonzero : i <= j].hand)]

\* The loop of readyForAccusation over envelope_counts.items(), from item i
\* on: it returns num_nonzero_probs and best_hand.
RECURSIVE nonzeroLoop(_, _, _, _)
nonzeroLoop(items, i, num_nonzero_probs, best_hand) ==
    IF i > Len(items) \/ num_nonzero_probs > 1
      THEN [num_nonzero_probs |-> num_nonzero_probs, best_hand |-> best_hand]
    ELSE IF items[i].count > 0
      THEN nonzeroLoop(items, i + 1, num_nonzero_probs + 1, items[i].hand)
    ELSE nonzeroLoop(items, i + 1, num_nonzero_probs, best_hand)

\* readyForAccusation that withdraws the accusation when the candidates
\* with a count above 0 are not exactly one
readyForAccusationOrNone(self) ==
    LET found == nonzeroLoop(self.envelope_counts, 1, 0, None)
    IN IF found.num_nonzero_probs = 1
         THEN [self EXCEPT !.accusation = asGuess(found.best_hand)]
       ELSE [self EXCEPT !.accusation = None]

readyForAccusation(self) ==
    LET found == nonzeroLoop(self.envelope_counts, 1, 0, None)
    IN IF found.num_nonzero_probs = 1
         THEN [self EXCEPT !.accusation = asGuess(found.best_hand)]
       ELSE self

\* "Special case if all the players could not disprove the card."
specialCase(self, player, guess, proof_list) ==
    IF (\A k \in 1..Len(proof_list) : proof_list[k].kind = "None")
       /\ player # self.player_num
      THEN playerHasConstraint(self, player, guess)
    ELSE self

\* getGuessInformation of the maximum-likelihood player: the player after
\* the call, the cache after it, and the exception it raised, if any.
getGuessInformation(self, player, guess, proof_list, memo) ==
    Once(specialCase(updateTruth(self, guess, proof_list),
                     player, guess, proof_list),
         LAMBDA informed :
           IF player = self.player_num
             THEN Once(countPlayerPossibilities(informed.envelope_info,
                                                informed.hand_infos, memo),
                       LAMBDA call :
                         IF call.err # ""
                           THEN [self |-> informed, cache |-> call.cache,
                                 err |-> call.err]
                         ELSE [self |-> readyForAccusation(
                                   [informed EXCEPT
                                      !.envelope_counts = call.val]),
                               cache |-> call.cache, err |-> ""])
           ELSE [self |-> informed, cache |-> memo, err |-> ""])

\* max() that returns any key.
maxHandsAny(envelope_counts) ==
    {envelope_counts[i].hand : i \in 1..Len(envelope_counts)}

\* The hands max(self.envelope_counts, key=self.envelope_counts.get) can
\* return: the order of the keys is the iteration order of a set of
\* strings, so any hand with the largest count can come first.
maxHands(envelope_counts) ==
    {envelope_counts[i].hand : i \in
        {i \in 1..Len(envelope_counts) :
            \A j \in 1..Len(envelope_counts) :
                envelope_counts[j].count <= envelope_counts[i].count}}

-----------------------------------------------------------------------------
(* ClueController and the players without a strategy.                      *)

KindML == "MaximumLikelihoodCluePlayer"
KindParticipant == "ClueParticipant"
KindPlayer == "CluePlayer"

\* CluePlayer.disproveGuess: "Reveal people first, then weapons, then rooms."
playerDisproveGuess(cards, player, guess) ==
    LET held == {k \in 1..Len(guess) : guess[k] \in Range(cards)}
    IN IF held = {} THEN NoProof(player)
       ELSE CardProof(player,
                      guess[CHOOSE k \in held : \A l \in held : k <= l])

\* guessing_order that starts with the player who guessed
guessingOrderFromGuesser(player_idx) ==
    [ix \in 1..(NumGamePlayers - 1) |->
        (ix - 1 + player_idx) % NumGamePlayers]

\* guessing_order of ClueController.disproveGuess
guessingOrder(player_idx) ==
    [ix \in 1..(NumGamePlayers - 1) |-> (ix + player_idx) % NumGamePlayers]

\* The loop of ClueController.disproveGuess, from position k of the
\* guessing order on: it stops at the first player with a proof.
RECURSIVE disproveLoop(_, _, _, _, _)
disproveLoop(cards, guessing_order, k, guess, proof_list) ==
    IF k > Len(guessing_order) THEN proof_list
    ELSE LET proof == playerDisproveGuess(cards[guessing_order[k]],
                                          guessing_order[k], guess)
         IN IF proof.kind # "None" THEN Append(proof_list, proof)
            ELSE disproveLoop(cards, guessing_order, k + 1, guess,
                              Append(proof_list, proof))

disproveGuess(cards, player_idx, guess) ==
    disproveLoop(cards, guessingOrder(player_idx), 1, guess, <<>>)

\* other_players_proof that is proof_list itself, the card shown included
otherPlayersProofShown(proof_list) == proof_list

\* other_players_proof of distributeInformation
otherPlayersProof(proof_list) ==
    IF proof_list[Len(proof_list)].kind # "None"
      THEN [proof_list EXCEPT ![Len(proof_list)] = TrueProof(@.player)]
    ELSE proof_list

\* CluePlayer.getGuessInformation on the accusation of player ix
playerGetGuessInformation(accusation, ix, player, guess, proof_list) ==
    IF player = ix /\ proof_list[Len(proof_list)].kind = "None" THEN guess
    ELSE accusation

\* makeAccusation of player ix
makeAccusation(kinds, accusations, the_ml, ix) ==
    IF kinds[ix] = KindML THEN the_ml.accusation
    ELSE IF kinds[ix] = KindParticipant THEN None
    ELSE accusations[ix]

\* checkAccusation that accepts every accusation
checkAccusationAlways(solution, acc) == TRUE

checkAccusation(solution, acc) ==
    \A k \in 1..Len(acc) : acc[k] \in Range(solution)

\* The guesses makeGuess of a player without a strategy can return.
randomGuesses(kind, cards) ==
    IF kind = KindParticipant THEN Guesses
    ELSE {g \in Guesses : \A k \in 1..Len(g) : g[k] \notin Range(cards)}

validateGuess(guess) ==
    guess[1] \in PEOPLE /\ guess[2] \in WEAPONS /\ guess[3] \in ROOMS

\* the maximum-likelihood player is not told the cards dealt to it
getCardsUntold(self, cards) == self

\* getCard of the maximum-likelihood player for each card dealt to it
RECURSIVE getCards(_, _)
getCards(self, cards) ==
    IF Len(cards) = 0 THEN self
    ELSE getCards(playerHasCard(self, self.player_num, Head(cards)),
                  Tail(cards))

\* the shuffled deck with the cards of the solution left in
shufflesWholeDeck(solution) ==
    {deck \in [1..Cardinality(Deck) -> Deck] :
        \A a, b \in 1..Cardinality(Deck) : deck[a] = deck[b] => a = b}

\* random.shuffle(deck): the orders of the cards left after the solution
shuffles(solution) ==
    LET rest == Deck \ Range(solution)
    IN {deck \in [1..Cardinality(rest) -> rest] :
           \A a, b \in 1..Cardinality(rest) : deck[a] = deck[b] => a = b}

\* "Deal out the cards to each player.": card ix of the deck goes to player
\* ix % num_players
deal(deck, num_players) ==
    [p \in 0..(num_players - 1) |->
        [j \in 1..Cardinality({ix \in 0..(Len(deck) - 1) :
                                  ix % num_players = p}) |->
            deck[(j - 1) * num_players + p + 1]]]

dealt(deck) == deal(deck, NumGamePlayers)

-----------------------------------------------------------------------------
(* The specification of a game: a controller is constructed over one       *)
(* maximum-likelihood player and players without a strategy, and           *)
(* runPlayer is called for the players in turn, as runGame and runRound    *)
(* do.  A turn is two steps: makeGuess of the player, then the rest of     *)
(* runPlayer.                                                              *)

InitGame ==
    /\ \E solution \in Guesses, player_num \in PlayerIndices,
          kinds \in [PlayerIndices -> {KindML, KindParticipant, KindPlayer}] :
          /\ \A p \in PlayerIndices : kinds[p] = KindML <=> p = player_num
          /\ \E deck \in shuffles(solution) :
                /\ game = [solution |-> solution,
                           kinds |-> kinds,
                           cards |-> dealt(deck),
                           accusations |-> [p \in PlayerIndices |-> None],
                           guess_list |-> <<>>,
                           proof_list |-> <<>>,
                           num_turns |-> 0,
                           guess |-> None,
                           res |-> None,
                           raised |-> ""]
                /\ ml = getCards(MaximumLikelihoodCluePlayer(player_num),
                                 dealt(deck)[player_num])
    /\ cache = {}
    /\ ret = NoCall
    /\ subject = Unused
    /\ players = Unused
    /\ counted = Unused
    /\ count_args = Unused
    /\ spent = Unused
    /\ cache_size_on_last_load = Unused
    /\ cache_file = Unused

\* the player runRound runs next
playerIdx == game.num_turns % NumGamePlayers

Running ==
    game.res = None /\ game.raised = "" /\ game.num_turns < MaxTurns

\* guess = self.players[player_idx].makeGuess()
MakeGuess ==
    /\ Running
    /\ game.guess = None
    /\ IF game.kinds[playerIdx] = KindML
         THEN \E call \in {countPlayerPossibilities(ml.envelope_info,
                                                     ml.hand_infos, cache)} :
                 /\ cache' = call.cache
                 /\ IF call.err # ""
                      THEN /\ game' = [game EXCEPT !.raised = call.err]
                           /\ ml' = ml
                    ELSE IF Len(call.val) = 0
                      THEN /\ game' = [game EXCEPT !.raised = "ValueError"]
                           /\ ml' = [ml EXCEPT !.envelope_counts = call.val]
                    ELSE /\ ml' = [ml EXCEPT !.envelope_counts = call.val]
                         /\ \E hand \in maxHands(call.val) :
                               game' = [game EXCEPT !.guess = asGuess(hand)]
       ELSE /\ \E guess \in randomGuesses(game.kinds[playerIdx],
                                          game.cards[playerIdx]) :
                  game' = [game EXCEPT !.guess = guess]
            /\ UNCHANGED <<cache, ml>>
    /\ UNCHANGED <<subject, players, counted, count_args, ret, spent,
                  cache_size_on_last_load, cache_file>>

\* runPlayer after makeGuess: the guess is validated, the other players try
\* to disprove it, every player is informed, and the player may accuse.
RunPlayer ==
    /\ Running
    /\ game.guess # None
    /\ \E proof_list \in {disproveGuess(game.cards, playerIdx, game.guess)} :
       \E informed \in {getGuessInformation(
                            ml, playerIdx, game.guess,
                            IF ml.player_num = playerIdx THEN proof_list
                            ELSE otherPlayersProof(proof_list),
                            cache)} :
       LET player_idx == playerIdx
           guess == game.guess
           accusations ==
               [p \in PlayerIndices |->
                   IF game.kinds[p] = KindML
                      \/ (informed.err # "" /\ p > ml.player_num)
                     THEN game.accusations[p]
                   ELSE playerGetGuessInformation(
                            game.accusations[p], p, player_idx, guess,
                            IF p = player_idx THEN proof_list
                            ELSE otherPlayersProof(proof_list))]
           acc == makeAccusation(game.kinds, accusations, informed.self,
                                 player_idx)
           turn_over == [game EXCEPT !.guess = None, !.num_turns = @ + 1]
       IN IF ~validateGuess(guess)
            THEN game' = turn_over /\ UNCHANGED <<ml, cache>>
          ELSE /\ ml' = informed.self
               /\ cache' = informed.cache
               /\ game' =
                    [turn_over EXCEPT
                       !.guess_list = Append(@, guess),
                       !.proof_list = Append(@, proof_list),
                       !.accusations = accusations,
                       !.raised = informed.err,
                       !.res = IF informed.err = "" /\ acc # None
                                  /\ validateGuess(acc)
                                  /\ checkAccusation(game.solution, acc)
                                 THEN <<player_idx>>
                               ELSE None]
    /\ UNCHANGED <<subject, players, counted, count_args, ret, spent,
                  cache_size_on_last_load, cache_file>>

NextGame ==
    \/ MakeGuess
    \/ RunPlayer

SpecGame == InitGame /\ [][NextGame]_vars

\* C6: whenever the maximum-likelihood player has computed envelope_counts,
\* the candidate that is the solution of the controller has a count above 0.
C6_KnowledgeSound ==
    ml.envelope_counts # <<>>
    => \E i \in 1..Len(ml.envelope_counts) :
          /\ ml.envelope_counts[i].hand.known_cards = Range(game.solution)
          /\ ml.envelope_counts[i].count > 0

\* C7: an accusation the maximum-likelihood player has set is the solution
\* of the controller.
C7_AccusationCertain ==
    ml.accusation # None => ml.accusation = game.solution


\* C22: in a turn in which the maximum-likelihood player, looking on,
\* records a constraint for the player who guessed, no other player had a
\* proof and the player who guessed makes no accusation.
C22_ImplicitHolder ==
    [][(/\ game.guess # None
        /\ game'.guess = None
        /\ ml.player_num # playerIdx
        /\ ml'.hand_infos[playerIdx + 1].constraint_list
             # ml.hand_infos[playerIdx + 1].constraint_list)
       => /\ \A k \in 1..Len(game'.proof_list[Len(game'.proof_list)]) :
                game'.proof_list[Len(game'.proof_list)][k].kind = "None"
          /\ makeAccusation(game.kinds, game'.accusations, ml', playerIdx)
               = None]_vars

\* C27: with the cards of the deal and no guess made yet, the counts of the
\* maximum-likelihood player's envelope candidates are computed without an
\* exception, no candidate with a card dealt to the player has a count above
\* 0, and a candidate with none of the player's cards has a count above 0.
C27_OwnCardsExcluded ==
    game.guess_list = <<>>
    => LET own == Range(game.cards[ml.player_num])
           call == countPlayerPossibilities(ml.envelope_info, ml.hand_infos,
                                            cache)
       IN /\ call.err = ""
          /\ \A i \in 1..Len(call.val) :
                call.val[i].hand.known_cards \cap own # {}
                  => call.val[i].count = 0
          /\ \E i \in 1..Len(call.val) :
                /\ call.val[i].hand.known_cards \cap own = {}
                /\ call.val[i].count > 0

\* C27 witness: the maximum-likelihood player has the first turn and has
\* counted its envelope candidates, several of them with a count above 0.
C27_Witness ==
    /\ game.guess_list = <<>>
    /\ game.guess # None
    /\ ml.player_num = 0
    /\ Cardinality({i \in 1..Len(ml.envelope_counts) :
                       ml.envelope_counts[i].count > 0}) >= 2
    /\ Range(game.cards[0]) # {}

\* C28: when the envelope of the maximum-likelihood player has a candidate,
\* makeGuess returns a guess: a person, a weapon and a room in this order,
\* the cards of a candidate of envelope_counts that no candidate exceeds in
\* count, none of them a card dealt to the player.
C28_GuessIsMostLikely ==
    [][(/\ game.guess = None
        /\ game.kinds[playerIdx] = KindML
        /\ Len(getPossibleHands(ml.envelope_info)) > 0)
       => /\ game'.raised = ""
          /\ game'.guess # None
          /\ validateGuess(game'.guess)
          /\ Range(game'.guess) \cap Range(game.cards[ml.player_num]) = {}
          /\ \E i \in 1..Len(ml'.envelope_counts) :
                /\ ml'.envelope_counts[i].hand.known_cards
                     = Range(game'.guess)
                /\ \A j \in 1..Len(ml'.envelope_counts) :
                      ml'.envelope_counts[j].count
                        <= ml'.envelope_counts[i].count]_vars

\* C28 witness: the maximum-likelihood player has made a guess after
\* another player's turn, and its candidates differ in count.
C28_Witness ==
    /\ game.guess # None
    /\ game.kinds[playerIdx] = KindML
    /\ game.num_turns > 0
    /\ \E i, j \in 1..Len(ml.envelope_counts) :
          ml.envelope_counts[i].count < ml.envelope_counts[j].count

\* C29: a game goes on only while no call of runPlayer has returned True;
\* the call that returns True is the one of the player whose turn it is, and
\* the accusation this player made in the turn is the person, the weapon
\* and the room of the solution.
C29_OnlySolutionWins ==
    [][/\ game.res = None
       /\ game'.res # None
            => /\ game'.res = <<playerIdx>>
               /\ game.guess # None
               /\ makeAccusation(game.kinds, game'.accusations, ml',
                                 playerIdx) = game.solution]_vars

\* C29 witness: the first player's turn did not win and the second
\* player's turn did.
C29_Witness ==
    /\ game.res = <<1>>
    /\ game.num_turns = 2
    /\ Len(game.guess_list) = 2

\* C34: in every proof list of a game the entries are of the players after
\* the one who guessed, in seating order and without the one who guessed;
\* every entry but the last has no proof, and the list ends before the last
\* of the other players only with a card; a player without a proof holds
\* no card of the guess and a card shown is a card of the guess that the
\* player holds.
C34_DisproofOrder ==
    \A t \in 1..Len(game.proof_list) :
        LET proof_list == game.proof_list[t]
            guess == game.guess_list[t]
            player_idx == (t - 1) % NumGamePlayers
        IN /\ Len(proof_list) \in 1..(NumGamePlayers - 1)
           /\ \A k \in 1..Len(proof_list) :
                 /\ proof_list[k].player = (player_idx + k) % NumGamePlayers
                 /\ proof_list[k].player # player_idx
                 /\ k < Len(proof_list) => proof_list[k].kind = "None"
                 /\ proof_list[k].kind \in {"None", "card"}
                 /\ proof_list[k].kind = "None"
                      => Range(game.cards[proof_list[k].player])
                           \cap Range(guess) = {}
                 /\ proof_list[k].kind = "card"
                      => proof_list[k].card
                           \in Range(game.cards[proof_list[k].player])
                                \cap Range(guess)
           /\ Len(proof_list) < NumGamePlayers - 1
                => proof_list[Len(proof_list)].kind = "card"

\* C34 witness: a game with a guess that the next player disproved, so
\* that the third player was not asked, and a guess that only the last
\* player asked disproved.
C34_Witness ==
    /\ Len(game.proof_list) = 2
    /\ Len(game.proof_list[1]) = 1
    /\ Len(game.proof_list[2]) = NumGamePlayers - 1
    /\ game.proof_list[2][NumGamePlayers - 1].kind = "card"

\* C35: when a guess is disproved with a card, what a player other than the
\* one who guessed is told does not hold the card: had the disprover shown
\* any other card of the guess, every such player would have been given the
\* same proof list (its last proof True) and would be in the same state
\* after the turn; the player who guessed is told the card.
C35_ShownCardConcealed ==
    [][RunPlayer =>
        LET player_idx == playerIdx
            guess == game.guess
            proof_list == game'.proof_list[Len(game'.proof_list)]
            shown == proof_list[Len(proof_list)]
        IN shown.kind = "card" =>
             /\ \A k \in 1..Len(otherPlayersProof(proof_list)) :
                   otherPlayersProof(proof_list)[k].kind # "card"
             /\ \A card \in Range(guess) :
                   LET other == [proof_list EXCEPT
                                    ![Len(proof_list)].card = card]
                   IN /\ otherPlayersProof(other)
                           = otherPlayersProof(proof_list)
                      /\ ml.player_num # player_idx
                           => getGuessInformation(
                                  ml, player_idx, guess,
                                  otherPlayersProof(other), cache)
                                = [self |-> ml', cache |-> cache',
                                   err |-> game'.raised]
                      /\ \A p \in PlayerIndices \ {player_idx} :
                            game.kinds[p] # KindML
                              => playerGetGuessInformation(
                                     game.accusations[p], p, player_idx,
                                     guess, otherPlayersProof(other))
                                   = game'.accusations[p]
             /\ ml.player_num = player_idx
                  => shown.card
                       \in ml'.hand_infos[shown.player + 1].known_cards
    ]_vars

\* C35 witness: the last guess was made by another player than the
\* maximum-likelihood one and disproved with a card, and the
\* maximum-likelihood player holds the guess as a constraint of the
\* disprover and does not know the card shown.
C35_Witness ==
    /\ Len(game.proof_list) > 0
    /\ game.num_turns = Len(game.proof_list)
    /\ (game.num_turns - 1) % NumGamePlayers # ml.player_num
    /\ LET proof_list == game.proof_list[Len(game.proof_list)]
           shown == proof_list[Len(proof_list)]
       IN /\ shown.kind = "card"
          /\ shown.player # ml.player_num
          /\ Len(ml.hand_infos[shown.player + 1].constraint_list) > 0
          /\ shown.card \notin ml.hand_infos[shown.player + 1].known_cards

-----------------------------------------------------------------------------
(* The specification of readyForAccusation: a maximum-likelihood player    *)
(* holds some envelope_counts (candidates of its envelope with a count     *)
(* each) and no accusation or the accusation of one of the candidates, and *)
(* readyForAccusation is called.                                           *)

\* most candidates in envelope_counts
MaxEntries == 3
\* largest count of a candidate
MaxCount == 1

\* the dictionaries over the keys, which are in the order of hands
RECURSIVE countsOver(_)
countsOver(hands) ==
    IF Len(hands) = 0 THEN {<<>>}
    ELSE {<<[hand |-> Head(hands), count |-> n]>> \o rest :
             n \in 0..MaxCount, rest \in countsOver(Tail(hands))}

InitAccuse ==
    /\ LET self == MaximumLikelihoodCluePlayer(0)
           candidates == getPossibleHands(self.envelope_info)
       IN \E keys \in SUBSET (1..Len(candidates)) :
             /\ Cardinality(keys) <= MaxEntries
             /\ \E envelope_counts \in
                      countsOver([k \in 1..Cardinality(keys) |->
                                     candidates[SetToSeq(keys)[k]]]),
                   accusation \in {None} \cup
                                  {asGuess(candidates[k]) : k \in keys} :
                   ml = [self EXCEPT !.envelope_counts = envelope_counts,
                                     !.accusation = accusation]
    /\ ret = NoCall
    /\ cache = {}
    /\ game = Unused
    /\ subject = Unused
    /\ players = Unused
    /\ counted = Unused
    /\ count_args = Unused
    /\ spent = Unused
    /\ cache_size_on_last_load = Unused
    /\ cache_file = Unused

ReadyForAccusation ==
    /\ ret.op = "none"
    /\ ml' = readyForAccusation(ml)
    /\ ret' = [op |-> "readyForAccusation", val |-> None]
    /\ UNCHANGED <<subject, players, counted, count_args, cache, game, spent,
                  cache_size_on_last_load, cache_file>>

NextAccuse == ReadyForAccusation

SpecAccuse == InitAccuse /\ [][NextAccuse]_vars

\* the candidates of envelope_counts with a count above 0
Nonzero(self) ==
    {i \in 1..Len(self.envelope_counts) : self.envelope_counts[i].count > 0}

\* C8: readyForAccusation sets the accusation exactly when one candidate of
\* envelope_counts has a count above 0, to the person, weapon and room of
\* that candidate; otherwise it leaves the accusation as it was.
C8_ReadyForAccusation ==
    [][ReadyForAccusation
       => IF Cardinality(Nonzero(ml)) = 1
            THEN \E i \in Nonzero(ml) :
                   LET cards == ml.envelope_counts[i].hand.known_cards
                   IN /\ Len(ml'.accusation) = 3
                      /\ ml'.accusation[1] \in cards \cap PEOPLE
                      /\ ml'.accusation[2] \in cards \cap WEAPONS
                      /\ ml'.accusation[3] \in cards \cap ROOMS
          ELSE ml'.accusation = ml.accusation]_vars

\* C8 witness: readyForAccusation has run over three candidates of which
\* the second is the only one with a count above 0, and has set the
\* accusation to it.
C8_Witness ==
    /\ ret.op = "readyForAccusation"
    /\ Len(ml.envelope_counts) = 3
    /\ Nonzero(ml) = {2}
    /\ Range(ml.accusation) = ml.envelope_counts[2].hand.known_cards

-----------------------------------------------------------------------------
(* The specification of what the maximum-likelihood player learns: it is   *)
(* made, and then it is dealt cards and told of guesses and their proofs,  *)
(* as the controller tells them, in any order and whether or not they fit  *)
(* together.                                                               *)

\* most cards and guesses the player is told
MaxTold == 2

\* MaximumLikelihoodCluePlayer.getCard
getCard(self, card) == playerHasCard(self, self.player_num, card)

\* The proof lists distributeInformation can hand to the player self_num
\* for a guess of player_idx: the players of the guessing order in turn,
\* without a proof up to the first one that has one; the card of the proof
\* is told to the player who guessed, True to the others.
ProofLists(self_num, player_idx, guess) ==
    LET order == guessingOrder(player_idx)
        nones(n) == [k \in 1..n |-> NoProof(order[k])]
        shown(ix) == IF self_num = player_idx
                       THEN {CardProof(ix, card) : card \in Range(guess)}
                     ELSE {TrueProof(ix)}
    IN {nones(Len(order))}
       \cup UNION {{Append(nones(n - 1), proof) : proof \in shown(order[n])} :
                     n \in 1..Len(order)}

InitLearn ==
    /\ \E player_num \in PlayerIndices :
          ml = MaximumLikelihoodCluePlayer(player_num)
    /\ cache = {}
    /\ ret = NoCall
    /\ spent = 0
    /\ cache_size_on_last_load = Unused
    /\ cache_file = Unused
    /\ subject = Unused
    /\ players = Unused
    /\ counted = Unused
    /\ count_args = Unused
    /\ game = Unused

\* getCard(card)
GetCard ==
    /\ spent < MaxTold
    /\ \E card \in Deck :
          /\ ml' = getCard(ml, card)
          /\ ret' = [op |-> "getCard", val |-> None, card |-> card]
    /\ spent' = spent + 1
    /\ UNCHANGED <<cache_size_on_last_load, cache_file>>
    /\ UNCHANGED <<subject, players, counted, count_args, cache, game>>

\* getGuessInformation(player, guess, proof_list)
GetGuessInformation ==
    /\ spent < MaxTold
    /\ \E player \in PlayerIndices, guess \in Guesses :
          \E proof_list \in ProofLists(ml.player_num, player, guess) :
             \E call \in {getGuessInformation(ml, player, guess, proof_list,
                                               cache)} :
                /\ ml' = call.self
                /\ cache' = call.cache
                /\ ret' = [op |-> "getGuessInformation", val |-> None,
                           player |-> player, guess |-> guess,
                           proof_list |-> proof_list, err |-> call.err]
    /\ spent' = spent + 1
    /\ UNCHANGED <<cache_size_on_last_load, cache_file>>
    /\ UNCHANGED <<subject, players, counted, count_args, game>>

NextLearn ==
    \/ GetCard
    \/ GetGuessInformation

SpecLearn == InitLearn /\ [][NextLearn]_vars

\* Between the players before and after, player holder has gained the
\* card as a known card, the card is possible in no hand and not in the
\* envelope, the players of without have lost the cards of guess as
\* possible cards, and no other card and no constraint_list has changed.
LearnedCard(before, after, holder, card, without, guess) ==
    /\ \A p \in PlayerIndices :
          LET old == before.hand_infos[p + 1]
              new == after.hand_infos[p + 1]
          IN /\ new.hand_size = old.hand_size
             /\ new.known_cards
                  = old.known_cards \cup (IF p = holder THEN {card} ELSE {})
             /\ new.possible_cards
                  = (old.possible_cards \ {card})
                      \ (IF p \in without THEN Range(guess) ELSE {})
             /\ new.constraint_list = old.constraint_list
    /\ after.envelope_info
         = [before.envelope_info EXCEPT !.possible_cards = @ \ {card}]

\* C20: a card dealt to the player becomes a known card of its own hand,
\* and a card shown to it for its guess a known card of the hand of the
\* player who showed it; the card is then possible in no hand and not in
\* the envelope; no constraint_list changes, and no other card changes
\* but the cards of the guess, which the players who had no proof lose as
\* possible cards.
C20_CardHolder ==
    [][/\ ret'.op = "getCard"
          => LearnedCard(ml, ml', ml.player_num, ret'.card, {}, <<>>)
       /\ (ret'.op = "getGuessInformation"
             /\ ret'.proof_list[Len(ret'.proof_list)].kind = "card")
          => LET proof_list == ret'.proof_list
                 last == proof_list[Len(proof_list)]
             IN LearnedCard(ml, ml', last.player, last.card,
                            {proof_list[k].player :
                                k \in 1..(Len(proof_list) - 1)},
                            ret'.guess)]_vars

\* C20 witness: the player was shown a card by a player who had a
\* constraint, after another player had no proof.
C20_Witness ==
    /\ ret.op = "getGuessInformation"
    /\ Len(ret.proof_list) = 2
    /\ ret.proof_list[2].kind = "card"
    /\ Len(ml.hand_infos[ret.proof_list[2].player + 1].constraint_list) > 0
    /\ ret.proof_list[2].card
         \in ml.hand_infos[ret.proof_list[2].player + 1].known_cards

\* the players of the entries (p, None) of a proof list
WithoutProof(proof_list) ==
    {proof_list[k].player :
        k \in {i \in 1..Len(proof_list) : proof_list[i].kind = "None"}}

\* C21: after getGuessInformation every player with an entry (p, None)
\* has lost the cards of the guess as possible cards and has the known
\* cards and the constraint_list it had; when no entry is a proof, no
\* hand has changed its known cards, the guesser's possible cards are
\* the ones it had, and the envelope is as it was.
C21_CouldNotDisprove ==
    [][ret'.op = "getGuessInformation"
       => LET without == WithoutProof(ret'.proof_list)
          IN /\ \A p \in without :
                   LET old == ml.hand_infos[p + 1]
                       new == ml'.hand_infos[p + 1]
                   IN /\ new.possible_cards
                           = old.possible_cards \ Range(ret'.guess)
                      /\ new.known_cards = old.known_cards
                      /\ new.constraint_list = old.constraint_list
                      /\ new.hand_size = old.hand_size
             /\ Cardinality(without) = Len(ret'.proof_list)
                => /\ \A q \in PlayerIndices \ without :
                         LET old == ml.hand_infos[q + 1]
                             new == ml'.hand_infos[q + 1]
                         IN /\ new.possible_cards = old.possible_cards
                            /\ new.known_cards = old.known_cards
                   /\ ml'.envelope_info = ml.envelope_info]_vars

\* C21 witness: no player had a proof for a guess, and one of them has a
\* constraint or a known card from what the player was told before.
C21_Witness ==
    /\ ret.op = "getGuessInformation"
    /\ Len(ret.proof_list) = NumGamePlayers - 1
    /\ Cardinality(WithoutProof(ret.proof_list)) = Len(ret.proof_list)
    /\ \E p \in WithoutProof(ret.proof_list) :
          \/ Len(ml.hand_infos[p + 1].constraint_list) > 0
          \/ ml.hand_infos[p + 1].known_cards # {}

\* The player is told of one more card or guess once it has an accusation.
MaxToldAccusing == 1

ToldMore ==
    \/ spent < MaxTold
    \/ ml.accusation # None /\ spent < MaxTold + MaxToldAccusing

\* getCard(card), also of a player that has an accusation
GetCardAccusing ==
    /\ ToldMore
    /\ \E card \in Deck :
          /\ ml' = getCard(ml, card)
          /\ ret' = [op |-> "getCard", val |-> None, card |-> card]
    /\ spent' = spent + 1
    /\ UNCHANGED <<cache_size_on_last_load, cache_file>>
    /\ UNCHANGED <<subject, players, counted, count_args, cache, game>>

\* getGuessInformation(player, guess, proof_list), also of a player that
\* has an accusation
GetGuessInformationAccusing ==
    /\ ToldMore
    /\ \E player \in PlayerIndices, guess \in Guesses :
          \E proof_list \in ProofLists(ml.player_num, player, guess) :
             \E call \in {getGuessInformation(ml, player, guess, proof_list,
                                               cache)} :
                /\ ml' = call.self
                /\ cache' = call.cache
                /\ ret' = [op |-> "getGuessInformation", val |-> None,
                           player |-> player, guess |-> guess,
                           proof_list |-> proof_list, err |-> call.err]
    /\ spent' = spent + 1
    /\ UNCHANGED <<cache_size_on_last_load, cache_file>>
    /\ UNCHANGED <<subject, players, counted, count_args, game>>

NextKnow ==
    \/ GetCardAccusing
    \/ GetGuessInformationAccusing

SpecKnow == InitLearn /\ [][NextKnow]_vars

\* old is a prefix of new
IsPrefix(old, new) ==
    /\ Len(old) <= Len(new)
    /\ \A k \in 1..Len(old) : new[k] = old[k]

\* Between the hands old and new no possible card was gained, no known
\* card lost, and constraints were only appended.
Monotone(old, new) ==
    /\ new.possible_cards \subseteq old.possible_cards
    /\ old.known_cards \subseteq new.known_cards
    /\ IsPrefix(old.constraint_list, new.constraint_list)

\* C36: no getCard and no getGuessInformation gives a hand or the envelope
\* a possible card, takes a known card from them or changes their
\* constraint_list other than by appending to it, and none resets an
\* accusation to None.
C36_KnowledgeMonotone ==
    [][/\ \A p \in PlayerIndices :
             Monotone(ml.hand_infos[p + 1], ml'.hand_infos[p + 1])
       /\ Monotone(ml.envelope_info, ml'.envelope_info)
       /\ ml.accusation # None => ml'.accusation # None]_vars

\* C36 witness: the player had an accusation, and was then told of a
\* guess that was disproved; it holds a known card, has lost a possible
\* card of its own hand and holds a constraint of another player.
C36_Witness ==
    /\ spent = MaxTold + MaxToldAccusing
    /\ ml.accusation # None
    /\ ret.op = "getGuessInformation"
    /\ \E p \in PlayerIndices :
          ml.hand_infos[p + 1].known_cards # {}
    /\ \E p \in PlayerIndices :
          Len(ml.hand_infos[p + 1].constraint_list) > 0

-----------------------------------------------------------------------------
(* GameStateCounter.loadCache and saveCache.  cache_file is the file at    *)
(* cache_path: missing, not readable as a pickle, or the pickle of a       *)
(* cache; its field writes is the number of times saveCache wrote it.      *)

\* most keys of a cache
MaxKeys == 2
\* most writes of the file
MaxWrites == 2

FileKeys == {<<k>> : k \in 1..MaxKeys}

MissingFile(writes) == [kind |-> "missing", content |-> {}, writes |-> writes]
CorruptFile(writes) == [kind |-> "corrupt", content |-> {}, writes |-> writes]

\* pickle.dump(self.cache, f): the keys and their counts
pickleDump(memo) == {[key |-> e.key, count |-> e.count] : e \in memo}

\* pickle.load(f) of a file that holds a pickle: a dict no key of which
\* has been assigned by this object
pickleLoad(content) ==
    {[key |-> e.key, count |-> e.count, writes |-> 0] : e \in content}

\* what pickle.load raises on a file that is not a pickle
PickleErrors == {"UnpicklingError", "EOFError"}

\* loadCache: the cache, cache_size_on_last_load and the exception that
\* leaves the call; pickle_error is what pickle.load raises if the file is
\* not a pickle.  Only FileNotFoundError is caught.
loadCache(file, pickle_error) ==
    IF file.kind = "missing"
      THEN [cache |-> {}, cache_size_on_last_load |-> 0, err |-> ""]
    ELSE IF file.kind = "corrupt"
      THEN [cache |-> {}, cache_size_on_last_load |-> 0, err |-> pickle_error]
    ELSE [cache |-> pickleLoad(file.content),
          cache_size_on_last_load |-> Cardinality(file.content),
          err |-> ""]

\* saveCache: whether the debug message was logged, and the file it
\* leaves.  Nothing follows the message but the write.
saveCache(memo, size_on_last_load, file, only_if_changed) ==
    [logged |-> only_if_changed /\ Cardinality(memo) = size_on_last_load,
     file |-> [kind |-> "pickle", content |-> pickleDump(memo),
               writes |-> file.writes + 1]]

\* A counter made by GameStateCounter() with the file missing or the
\* pickle of a cache.
InitFile ==
    /\ \E file \in {MissingFile(0)}
                   \cup {[kind |-> "pickle", content |-> pickleDump(memo),
                          writes |-> 0] :
                           memo \in SUBSET {[key |-> key, count |-> 1,
                                             writes |-> 0] : key \in FileKeys}} :
          /\ cache_file = file
          /\ cache = loadCache(file, "").cache
          /\ cache_size_on_last_load
               = loadCache(file, "").cache_size_on_last_load
    /\ ret = NoCall
    /\ subject = Unused
    /\ players = Unused
    /\ counted = Unused
    /\ count_args = Unused
    /\ game = Unused
    /\ ml = Unused
    /\ spent = Unused

\* countPossibleStates stores the count of a key it did not find.
StoreCount ==
    /\ \E key \in FileKeys :
          /\ ~inCache(cache, key)
          /\ cache' = store(cache, key, 1)
    /\ ret' = [op |-> "countPossibleStates"]
    /\ UNCHANGED <<subject, players, counted, count_args, game, ml, spent,
                   cache_size_on_last_load, cache_file>>

LoadCache ==
    /\ \E pickle_error \in PickleErrors :
          \E call \in {loadCache(cache_file, pickle_error)} :
             /\ cache' = call.cache
             /\ cache_size_on_last_load' = call.cache_size_on_last_load
             /\ ret' = [op |-> "loadCache", file |-> cache_file.kind,
                        err |-> call.err]
    /\ UNCHANGED <<subject, players, counted, count_args, game, ml, spent,
                   cache_file>>

SaveCache ==
    /\ cache_file.writes < MaxWrites
    /\ \E only_if_changed \in BOOLEAN :
          \E call \in {saveCache(cache, cache_size_on_last_load, cache_file,
                                 only_if_changed)} :
             /\ cache_file' = call.file
             /\ ret' = [op |-> "saveCache",
                        only_if_changed |-> only_if_changed,
                        logged |-> call.logged]
    /\ UNCHANGED <<subject, players, counted, count_args, game, ml, spent,
                   cache, cache_size_on_last_load>>

\* The file is removed by something else.
FileRemoved ==
    /\ cache_file.kind # "missing"
    /\ cache_file' = MissingFile(cache_file.writes)
    /\ ret' = [op |-> "removed"]
    /\ UNCHANGED <<subject, players, counted, count_args, game, ml, spent,
                   cache, cache_size_on_last_load>>

\* The file is damaged by something else.
FileCorrupted ==
    /\ cache_file.kind = "pickle"
    /\ cache_file' = CorruptFile(cache_file.writes)
    /\ ret' = [op |-> "corrupted"]
    /\ UNCHANGED <<subject, players, counted, count_args, game, ml, spent,
                   cache, cache_size_on_last_load>>

NextFile ==
    \/ StoreCount
    \/ LoadCache
    \/ SaveCache
    \/ FileRemoved
    \/ FileCorrupted

SpecFile == InitFile /\ [][NextFile]_vars

\* C25: loadCache with the file missing or not readable as a pickle
\* returns without an exception and leaves an empty cache and
\* cache_size_on_last_load 0.
C25_LoadCacheNeverFails ==
    (ret.op = "loadCache" /\ ret.file \in {"missing", "corrupt"})
    => /\ ret.err = ""
       /\ cache = {}
       /\ cache_size_on_last_load = 0

\* C26: saveCache(only_if_changed=True) with as many entries in the cache
\* as at the last load leaves the file as it is.
C26_SaveCacheSkipsUnchanged ==
    [][(/\ ret'.op = "saveCache"
        /\ ret'.only_if_changed
        /\ Cardinality(cache) = cache_size_on_last_load)
       => cache_file' = cache_file]_vars

-----------------------------------------------------------------------------
(* ClueController.__init__ over a list of players that keep the cards      *)
(* they get: the solution is chosen, the rest of the deck is shuffled and  *)
(* dealt.                                                                  *)

\* most players handed to the controller
MaxDealPlayers == 4

InitDeal ==
    /\ \E num_players \in 1..MaxDealPlayers :
          game = [num_players |-> num_players,
                  solution |-> None,
                  cards |-> [p \in 0..(num_players - 1) |-> <<>>],
                  constructed |-> FALSE]
    /\ cache = {}
    /\ ret = NoCall
    /\ subject = Unused
    /\ players = Unused
    /\ counted = Unused
    /\ count_args = Unused
    /\ ml = Unused
    /\ spent = Unused
    /\ cache_size_on_last_load = Unused
    /\ cache_file = Unused

\* ClueController(players)
Construct ==
    /\ ~game.constructed
    /\ \E solution \in Guesses :
          \E deck \in shuffles(solution) :
             game' = [game EXCEPT !.solution = solution,
                                  !.cards = deal(deck, game.num_players),
                                  !.constructed = TRUE]
    /\ UNCHANGED <<subject, players, counted, count_args, cache, ret, ml,
                   spent, cache_size_on_last_load, cache_file>>

NextDeal == Construct

SpecDeal == InitDeal /\ [][NextDeal]_vars

\* the places (player, position in the player's cards) that hold the card
Holders(card) ==
    {place \in (0..(game.num_players - 1)) \X (1..Cardinality(Deck)) :
        /\ place[2] <= Len(game.cards[place[1]])
        /\ game.cards[place[1]][place[2]] = card}

\* C30: after the controller is constructed the solution is a person, a
\* weapon and a room, every card of the deck is either a card of the
\* solution and with no player, or with exactly one player once, and the
\* numbers of cards of two players differ by at most one.
C30_DealPartition ==
    game.constructed
    => /\ Len(game.solution) = 3
       /\ validateGuess(game.solution)
       /\ \A card \in Deck :
             Cardinality(Holders(card))
               = IF card \in Range(game.solution) THEN 0 ELSE 1
       /\ \A p, q \in 0..(game.num_players - 1) :
             Len(game.cards[p]) <= Len(game.cards[q]) + 1

\* C30 witness: the cards do not go round evenly, the first player has one
\* card more than the last.
C30_Witness ==
    /\ game.constructed
    /\ game.num_players >= 2
    /\ Len(game.cards[0]) = Len(game.cards[game.num_players - 1]) + 1
    /\ Len(game.cards[game.num_players - 1]) >= 1

-----------------------------------------------------------------------------
(* The objects of the resolver and the counters.  A heap is a sequence of  *)
(* cells and a reference is a position in it: a cell is a set (known_cards *)
(* or possible_cards of a hand), a list (constraint_list) or a hand whose  *)
(* fields refer to its two sets and its list.  A call returns the heap it  *)
(* leaves next to its value.                                               *)

SetCell(elems) == [kind |-> "set", elems |-> elems]
ListCell(items) == [kind |-> "list", items |-> items]

\* HandInformation(hand_size, known_cards, possible_cards) with the two
\* sets given as references: the object keeps the references it is given
\* and makes its own constraint_list.
HandInformationObj(heap, hand_size, known_cards, possible_cards) ==
    [heap |-> heap \o <<ListCell(<<>>),
                        [kind |-> "hand",
                         hand_size |-> hand_size,
                         known_cards |-> known_cards,
                         possible_cards |-> possible_cards,
                         constraint_list |-> Len(heap) + 1]>>,
     val |-> Len(heap) + 2]

\* The hand a reference stands for.
deref(heap, h) ==
    [hand_size |-> heap[h].hand_size,
     known_cards |-> heap[heap[h].known_cards].elems,
     possible_cards |-> heap[heap[h].possible_cards].elems,
     constraint_list |-> heap[heap[h].constraint_list].items]

derefAll(heap, hs) == [i \in 1..Len(hs) |-> deref(heap, hs[i])]

\* A hand with sets and a list of its own, put on the heap.
newHand(heap, hand) ==
    [heap |-> heap \o <<SetCell(hand.known_cards),
                        SetCell(hand.possible_cards),
                        ListCell(hand.constraint_list),
                        [kind |-> "hand",
                         hand_size |-> hand.hand_size,
                         known_cards |-> Len(heap) + 1,
                         possible_cards |-> Len(heap) + 2,
                         constraint_list |-> Len(heap) + 3]>>,
     val |-> Len(heap) + 4]

\* copy.deepcopy that returns its argument
deepcopyShared(heap, h) == [heap |-> heap, val |-> h]

\* copy.deepcopy(h)
deepcopy(heap, h) == newHand(heap, deref(heap, h))

removePossibleCardObj(heap, h, card) ==
    [heap EXCEPT ![heap[h].possible_cards].elems = @ \ {card}]

addKnownCardObj(heap, h, card) ==
    removePossibleCardObj(
        [heap EXCEPT ![heap[h].known_cards].elems = @ \cup {card}], h, card)

\* h.constraint_list.pop()
popConstraintObj(heap, h) ==
    [heap EXCEPT ![heap[h].constraint_list].items = SubSeq(@, 1, Len(@) - 1)]

RECURSIVE removeOldCardsObj(_, _, _)
removeOldCardsObj(heap, h, old_cards) ==
    IF Len(old_cards) = 0 THEN heap
    ELSE removeOldCardsObj(removePossibleCardObj(heap, h, Head(old_cards)),
                           h, Tail(old_cards))

RECURSIVE satisfyConstraintsObj(_, _), constraintLoopObj(_, _, _, _, _, _)
\* The loop of satisfyConstraints over the cards of the constraint, from
\* position i on.
constraintLoopObj(heap, self, constraint, i, old_cards, hand_infos) ==
    IF i > Len(constraint) THEN [heap |-> heap, val |-> hand_infos]
    ELSE
      Once(deepcopy(heap, self),
           LAMBDA copy :
             LET card == constraint[i]
                 hand_info == copy.val
                 popped == popConstraintObj(copy.heap, hand_info)
                 before == deref(popped, hand_info)
                 added == addKnownCardObj(popped, hand_info, card)
             IN IF card \notin before.known_cards
                   /\ card \notin before.possible_cards
                  THEN constraintLoopObj(popped, self, constraint, i + 1,
                                         old_cards, hand_infos)
                ELSE IF num_unknown_cards(before) = 0
                  THEN constraintLoopObj(popped, self, constraint, i + 1,
                                         old_cards, hand_infos)
                ELSE IF \E k \in 1..Len(old_cards) :
                           old_cards[k] \in deref(added, hand_info).known_cards
                  THEN constraintLoopObj(added, self, constraint, i + 1,
                                         old_cards, hand_infos)
                ELSE Once(satisfyConstraintsObj(
                              removeOldCardsObj(added, hand_info, old_cards),
                              hand_info),
                          LAMBDA rest :
                            constraintLoopObj(rest.heap, self, constraint,
                                              i + 1, Append(old_cards, card),
                                              hand_infos \o rest.val)))

satisfyConstraintsObj(heap, self) ==
    LET constraint_list == deref(heap, self).constraint_list
    IN IF Len(constraint_list) = 0 THEN [heap |-> heap, val |-> <<self>>]
       ELSE IF meetsConstraint(deref(heap, self).known_cards,
                               constraint_list[Len(constraint_list)])
         THEN Once(deepcopy(heap, self),
                   LAMBDA copy :
                     satisfyConstraintsObj(popConstraintObj(copy.heap, copy.val),
                                           copy.val))
       ELSE constraintLoopObj(heap, self, constraint_list[Len(constraint_list)],
                              1, <<>>, <<>>)

\* individual_constraints: satisfyConstraints of every hand from i on
RECURSIVE individualConstraintsObj(_, _, _, _)
individualConstraintsObj(heap, player_hands, i, lists) ==
    IF i > Len(player_hands) THEN [heap |-> heap, val |-> lists]
    ELSE Once(satisfyConstraintsObj(heap, player_hands[i]),
              LAMBDA resolved :
                individualConstraintsObj(resolved.heap, player_hands, i + 1,
                                         Append(lists, resolved.val)))

\* The loop over other_hand from position j on: the known cards of every
\* hand of hand_set that is not equal (==) to hand are removed from the
\* possible cards of new_hand.
RECURSIVE removeOtherKnownObj(_, _, _, _, _)
removeOtherKnownObj(heap, new_hand, hand, hand_set, j) ==
    IF j > Len(hand_set) THEN heap
    ELSE IF deref(heap, hand_set[j]) = deref(heap, hand)
      THEN removeOtherKnownObj(heap, new_hand, hand, hand_set, j + 1)
    ELSE removeOtherKnownObj(
             removeOldCardsObj(heap, new_hand,
                               SetToSeq(deref(heap, hand_set[j]).known_cards)),
             new_hand, hand, hand_set, j + 1)

\* hand_list: a copy of every hand of hand_set from position i on, without
\* the known cards of the other hands
RECURSIVE tightenedObj(_, _, _, _)
tightenedObj(heap, hand_set, i, hand_list) ==
    IF i > Len(hand_set) THEN [heap |-> heap, val |-> hand_list]
    ELSE Once(deepcopy(heap, hand_set[i]),
              LAMBDA copy :
                tightenedObj(removeOtherKnownObj(copy.heap, copy.val,
                                                 hand_set[i], hand_set, 1),
                             hand_set, i + 1, Append(hand_list, copy.val)))

\* The loop over itertools.product(*individual_constraints) from k on.
RECURSIVE handSetLoopObj(_, _, _, _)
handSetLoopObj(heap, hand_sets, k, hand_lists) ==
    IF k > Len(hand_sets) THEN [heap |-> heap, val |-> hand_lists]
    ELSE IF ~validSet(derefAll(heap, hand_sets[k]), 1, {})
      THEN handSetLoopObj(heap, hand_sets, k + 1, hand_lists)
    ELSE Once(tightenedObj(heap, hand_sets[k], 1, <<>>),
              LAMBDA made :
                handSetLoopObj(made.heap, hand_sets, k + 1,
                               Append(hand_lists, made.val)))

satisfyAllConstraintsObj(heap, player_hands) ==
    Once(individualConstraintsObj(heap, player_hands, 1, <<>>),
         LAMBDA individual_constraints :
           handSetLoopObj(individual_constraints.heap,
                          product(individual_constraints.val), 1, <<>>))

\* new_args: a new hand for every hand but idx, from position ix on, with
\* the known_cards set of the hand itself and a new set of possible cards
RECURSIVE newArgsObj(_, _, _, _, _, _)
newArgsObj(heap, hand_infos, idx, hand_set, ix, new_args) ==
    IF ix > Len(hand_infos) THEN [heap |-> heap, val |-> new_args]
    ELSE IF ix = idx
      THEN newArgsObj(heap, hand_infos, idx, hand_set, ix + 1, new_args)
    ELSE Once(HandInformationObj(
                  Append(heap,
                         SetCell(deref(heap, hand_infos[ix]).possible_cards
                                   \ hand_set)),
                  heap[hand_infos[ix]].hand_size,
                  heap[hand_infos[ix]].known_cards,
                  Len(heap) + 1),
              LAMBDA made :
                newArgsObj(made.heap, hand_infos, idx, hand_set, ix + 1,
                           Append(new_args, made.val)))

RECURSIVE countPossibleStatesObj(_, _, _), countLoopObj(_, _, _, _, _, _, _)
countLoopObj(heap, hand_infos, idx, combos, i, count, memo) ==
    IF i > Len(combos)
      THEN [heap |-> heap, val |-> count, err |-> "", cache |-> memo]
    ELSE Once(newArgsObj(heap, hand_infos, idx, combos[i], 1, <<>>),
              LAMBDA new_args :
                Once(countPossibleStatesObj(new_args.heap, new_args.val, memo),
                     LAMBDA sub :
                       IF sub.err # "" THEN sub
                       ELSE countLoopObj(sub.heap, hand_infos, idx, combos,
                                         i + 1, count + sub.val, sub.cache)))

countPossibleStatesObj(heap, hand_infos, memo) ==
    LET hands == derefAll(heap, hand_infos)
    IN IF \E i \in 1..Len(hands) : Len(hands[i].constraint_list) > 0
         THEN [heap |-> heap, val |-> 0, err |-> "ValueError", cache |-> memo]
       ELSE IF Len(hands) = 1
         THEN [heap |-> heap, val |-> numPossibleHands(hands[1]), err |-> "",
               cache |-> memo]
       ELSE IF inCache(memo, getCacheKey(hands))
         THEN [heap |-> heap, val |-> cached(memo, getCacheKey(hands)),
               err |-> "", cache |-> memo]
       ELSE IF Len(hands) = 0
         THEN [heap |-> heap, val |-> 0, err |-> "IndexError", cache |-> memo]
       ELSE LET idx == handToIterate(hands)
            IN IF num_unknown_cards(hands[idx]) < 0
                 THEN [heap |-> heap, val |-> 0, err |-> "ValueError",
                       cache |-> memo]
               ELSE Once(SetToSeq(combinations(hands[idx].possible_cards,
                                               num_unknown_cards(hands[idx]))),
                         LAMBDA combos :
                           Once(countLoopObj(heap, hand_infos, idx, combos, 1,
                                             0, memo),
                                LAMBDA done :
                                  IF done.err # "" THEN done
                                  ELSE [done EXCEPT
                                          !.cache = store(done.cache,
                                                          getCacheKey(hands),
                                                          done.val)]))

\* new_hands: a copy of every hand of hand_list from position k on, without
\* the cards of the candidate as possible cards
RECURSIVE newHandsObj(_, _, _, _, _)
newHandsObj(heap, candidate, hand_list, k, new_hands) ==
    IF k > Len(hand_list) THEN [heap |-> heap, val |-> new_hands]
    ELSE Once(deepcopy(heap, hand_list[k]),
              LAMBDA copy :
                newHandsObj(removeOldCardsObj(copy.heap, copy.val,
                                              SetToSeq(candidate.known_cards)),
                            candidate, hand_list, k + 1,
                            Append(new_hands, copy.val)))

\* The loop over hand_lists for one candidate, from position j on.
RECURSIVE handListLoopObj(_, _, _, _, _, _)
handListLoopObj(heap, candidate, hand_lists, j, num, memo) ==
    IF j > Len(hand_lists)
      THEN [heap |-> heap, val |-> num, err |-> "", cache |-> memo]
    ELSE IF conflicts(candidate, derefAll(heap, hand_lists[j]))
      THEN handListLoopObj(heap, candidate, hand_lists, j + 1, num, memo)
    ELSE Once(newHandsObj(heap, candidate, hand_lists[j], 1, <<>>),
              LAMBDA new_hands :
                Once(countPossibleStatesObj(new_hands.heap, new_hands.val,
                                            memo),
                     LAMBDA sub :
                       IF sub.err # "" THEN sub
                       ELSE handListLoopObj(sub.heap, candidate, hand_lists,
                                            j + 1, num + sub.val, sub.cache)))

\* The loop over the hands of player_to_count, from position i on.  The
\* candidates are new objects that only this loop refers to.
RECURSIVE candidateLoopObj(_, _, _, _, _, _)
candidateLoopObj(heap, candidates, hand_lists, i, num_possibilities, memo) ==
    IF i > Len(candidates)
      THEN [heap |-> heap, val |-> num_possibilities, err |-> "",
            cache |-> memo]
    ELSE Once(handListLoopObj(heap, candidates[i], hand_lists, 1, 0, memo),
              LAMBDA one :
                IF one.err # ""
                  THEN [heap |-> one.heap, val |-> num_possibilities,
                        err |-> one.err, cache |-> one.cache]
                ELSE candidateLoopObj(one.heap, candidates, hand_lists, i + 1,
                                      Append(num_possibilities,
                                             [hand |-> candidates[i],
                                              count |-> one.val]),
                                      one.cache))

countPlayerPossibilitiesObj(heap, player_to_count, other_players, memo) ==
    Once(satisfyAllConstraintsObj(heap, other_players),
         LAMBDA hand_lists :
           IF num_unknown_cards(deref(heap, player_to_count)) < 0
             THEN [heap |-> hand_lists.heap, val |-> <<>>,
                   err |-> "ValueError", cache |-> memo]
           ELSE candidateLoopObj(hand_lists.heap,
                                 getPossibleHands(deref(heap, player_to_count)),
                                 hand_lists.val, 1, <<>>, memo))

-----------------------------------------------------------------------------
(* The specification of the calls on objects: hands are created and facts  *)
(* recorded in them as for countPlayerPossibilities, the hands are put on  *)
(* a heap, each with sets and a list of its own, and one of the four       *)
(* functions is called with references to them.                            *)

\* The hands from position i on put on the heap, and their references.
RECURSIVE putHands(_, _, _, _)
putHands(heap, hands, i, refs) ==
    IF i > Len(hands) THEN [heap |-> heap, val |-> refs]
    ELSE Once(newHand(heap, hands[i]),
              LAMBDA made :
                putHands(made.heap, hands, i + 1, Append(refs, made.val)))

\* counted and the hands of the other players
AllHands == <<counted>> \o players

ObjCalls == {"satisfyConstraintsObj", "satisfyAllConstraintsObj",
             "countPossibleStatesObj", "countPlayerPossibilitiesObj"}

ObjSatisfyConstraints ==
    /\ ret.op = "none"
    /\ \E start \in {putHands(<<>>, AllHands, 1, <<>>)} :
       \E p \in 1..Len(AllHands) :
       \E call \in {satisfyConstraintsObj(start.heap, start.val[p])} :
          ret' = [op |-> "satisfyConstraintsObj",
                  p |-> p,
                  after |-> derefAll(call.heap, start.val),
                  val |-> derefAll(call.heap, call.val),
                  err |-> ""]
    /\ UNCHANGED <<subject, players, counted, count_args, cache, game, ml,
                   spent, cache_size_on_last_load, cache_file>>

ObjSatisfyAllConstraints ==
    /\ ret.op = "none"
    /\ \E start \in {putHands(<<>>, AllHands, 1, <<>>)} :
       \E call \in {satisfyAllConstraintsObj(start.heap, Tail(start.val))} :
          ret' = [op |-> "satisfyAllConstraintsObj",
                  p |-> 0,
                  after |-> derefAll(call.heap, start.val),
                  val |-> [k \in 1..Len(call.val) |->
                              derefAll(call.heap, call.val[k])],
                  err |-> ""]
    /\ UNCHANGED <<subject, players, counted, count_args, cache, game, ml,
                   spent, cache_size_on_last_load, cache_file>>

ObjCountPossibleStates ==
    /\ ret.op = "none"
    /\ \E start \in {putHands(<<>>, AllHands, 1, <<>>)} :
       \E call \in {countPossibleStatesObj(start.heap, start.val, cache)} :
          /\ ret' = [op |-> "countPossibleStatesObj",
                     p |-> 0,
                     after |-> derefAll(call.heap, start.val),
                     val |-> call.val,
                     err |-> call.err]
          /\ cache' = call.cache
    /\ UNCHANGED <<subject, players, counted, count_args, game, ml, spent,
                   cache_size_on_last_load, cache_file>>

ObjCountPlayerPossibilities ==
    /\ ret.op = "none"
    /\ \E start \in {putHands(<<>>, AllHands, 1, <<>>)} :
       \E call \in {countPlayerPossibilitiesObj(start.heap, start.val[1],
                                                Tail(start.val), cache)} :
          /\ ret' = [op |-> "countPlayerPossibilitiesObj",
                     p |-> 0,
                     after |-> derefAll(call.heap, start.val),
                     val |-> call.val,
                     err |-> call.err]
          /\ cache' = call.cache
    /\ UNCHANGED <<subject, players, counted, count_args, game, ml, spent,
                   cache_size_on_last_load, cache_file>>

\* A call of getCacheKey: the key, and no exception, as no statement of
\* getCacheKey raises one or looks at a constraint_list.
getCacheKeyCall(hands) == [val |-> getCacheKey(hands), err |-> ""]

GetCacheKey ==
    /\ ret.op = "none"
    /\ \E call \in {getCacheKeyCall(AllHands)} :
          ret' = [op |-> "getCacheKey", p |-> 0, after |-> AllHands,
                  val |-> call.val, err |-> call.err]
    /\ UNCHANGED <<subject, players, counted, count_args, cache, game, ml,
                   spent, cache_size_on_last_load, cache_file>>

NextObj ==
    \/ GetCacheKey
    \/ EngineAddKnownCard
    \/ EngineRemovePossibleCard
    \/ EngineAddConstraint
    \/ ObjSatisfyConstraints
    \/ ObjSatisfyAllConstraints
    \/ ObjCountPossibleStates
    \/ ObjCountPlayerPossibilities

SpecObj == InitEngine /\ [][NextObj]_vars

\* What the call returns when every branch works on values of its own.
OwnCopies ==
    IF ret.op = "satisfyConstraintsObj"
      THEN [val |-> satisfyConstraints(AllHands[ret.p]), err |-> ""]
    ELSE IF ret.op = "satisfyAllConstraintsObj"
      THEN [val |-> satisfyAllConstraints(players), err |-> ""]
    ELSE IF ret.op = "countPossibleStatesObj"
      THEN [val |-> countPossibleStates(AllHands, {}).val,
            err |-> countPossibleStates(AllHands, {}).err]
    ELSE [val |-> countPlayerPossibilities(counted, players, {}).val,
          err |-> countPlayerPossibilities(counted, players, {}).err]

\* C32: after a call of satisfyConstraints, satisfyAllConstraints,
\* countPossibleStates or countPlayerPossibilities every hand handed over has
\* the hand_size, known_cards, possible_cards and constraint_list it had,
\* and the call returns what it returns when no branch sees the changes of
\* another.
C32_InputsUnchanged ==
    ret.op \in ObjCalls
    => /\ ret.after = AllHands
       /\ ret.val = OwnCopies.val
       /\ ret.err = OwnCopies.err

\* C32 witness: countPlayerPossibilities has counted with a hand among the
\* other players that resolves into two branches, and a hand with a known
\* card.
C32_Witness ==
    /\ ret.op = "countPlayerPossibilitiesObj"
    /\ ret.err = ""
    /\ \E p \in 1..Len(players) : Len(satisfyConstraints(players[p])) >= 2
    /\ \E i \in 1..Len(ret.val) : ret.val[i].count > 0

\* C33: getCacheKey of a list with a hand that has a constraint raises
\* ValueError.
C33_KeyOfConstrainedRejected ==
    (/\ ret.op = "getCacheKey"
     /\ \E i \in 1..Len(AllHands) : Len(AllHands[i].constraint_list) > 0)
    => ret.err = "ValueError"

-----------------------------------------------------------------------------
(* The nesting of the calls of satisfyConstraints and countPossibleStates. *)
(* A call stack is the sequence of the arguments of the calls that are     *)
(* open at some moment, the outermost first: the receivers of              *)
(* satisfyConstraints, the hand lists of countPossibleStates.              *)

\* the stacks below a call with argument arg, given the stacks of the
\* calls it makes
below(arg, stacks) == {<<arg>>} \cup {<<arg>> \o stack : stack \in stacks}

\* The hands satisfyConstraints calls itself on.
satisfyConstraintsCalls(self) ==
    IF Len(self.constraint_list) = 0 THEN {}
    ELSE IF meetsConstraint(self.known_cards,
                            self.constraint_list[Len(self.constraint_list)])
      THEN {popConstraint(self)}
    ELSE {splitBranches(self)[i].hand_info :
             i \in 1..Len(splitBranches(self))}

\* The call stacks of self.satisfyConstraints().
RECURSIVE satisfyConstraintsStacks(_)
satisfyConstraintsStacks(self) ==
    below(self, UNION {satisfyConstraintsStacks(hand_info) :
                          hand_info \in satisfyConstraintsCalls(self)})

\* The call stacks of the loop of countPossibleStates over the hands of
\* player idx, from the i-th combination on; an exception ends the loop.
RECURSIVE countPossibleStatesStacks(_, _), countLoopStacks(_, _, _, _, _)
countLoopStacks(hands, idx, combos, i, memo) ==
    IF i > Len(combos) THEN {}
    ELSE Once(countPossibleStates(newArgs(hands, idx, combos[i]), memo),
              LAMBDA sub :
                  countPossibleStatesStacks(newArgs(hands, idx, combos[i]),
                                            memo)
                  \cup (IF sub.err # "" THEN {}
                        ELSE countLoopStacks(hands, idx, combos, i + 1,
                                             sub.cache)))

\* The call stacks of countPossibleStates(hands) with the cache memo.
countPossibleStatesStacks(hands, memo) ==
    IF \/ \E i \in 1..Len(hands) : Len(hands[i].constraint_list) > 0
       \/ Len(hands) <= 1
       \/ inCache(memo, getCacheKey(hands))
       \/ num_unknown_cards(hands[handToIterate(hands)]) < 0
      THEN below(hands, {})
    ELSE below(hands,
               countLoopStacks(
                   hands, handToIterate(hands),
                   SetToSeq(combinations(
                       hands[handToIterate(hands)].possible_cards,
                       num_unknown_cards(hands[handToIterate(hands)]))),
                   1, memo))

\* The hand to count and the hands of the other players are created and
\* facts recorded in them; satisfyConstraints is called on one of the
\* hands and countPossibleStates on all of them, each once and at any
\* moment.  ret holds the call stacks of the two calls.
InitStacks ==
    /\ \E n \in 1..MaxOthers, hand_size \in 1..MaxHandSize :
          /\ players = [i \in 1..n |-> HandInformation(hand_size, {}, Cards)]
          /\ counted = HandInformation(hand_size, {}, Cards)
    /\ cache = {}
    /\ ret = [op |-> "none", satisfyConstraints |-> {},
              countPossibleStates |-> {}]
    /\ subject = Unused
    /\ count_args = Unused
    /\ game = Unused
    /\ ml = Unused
    /\ spent = Unused
    /\ cache_size_on_last_load = Unused
    /\ cache_file = Unused

StackSatisfyConstraints ==
    /\ ret.satisfyConstraints = {}
    /\ \E p \in 1..Len(AllHands) :
          ret' = [ret EXCEPT !.satisfyConstraints
                                 = satisfyConstraintsStacks(AllHands[p])]
    /\ UNCHANGED <<subject, players, counted, count_args, cache, game, ml,
                   spent, cache_size_on_last_load, cache_file>>

StackCountPossibleStates ==
    /\ ret.countPossibleStates = {}
    /\ ret' = [ret EXCEPT !.countPossibleStates
                              = countPossibleStatesStacks(AllHands, cache)]
    /\ \E call \in {countPossibleStates(AllHands, cache)} :
          cache' = call.cache
    /\ UNCHANGED <<subject, players, counted, count_args, game, ml, spent,
                   cache_size_on_last_load, cache_file>>

NextStacks ==
    \/ EngineAddKnownCard
    \/ EngineRemovePossibleCard
    \/ EngineAddConstraint
    \/ StackSatisfyConstraints
    \/ StackCountPossibleStates

SpecStacks == InitStacks /\ [][NextStacks]_vars

\* C37: no call stack of satisfyConstraints is deeper than the number of
\* constraints of the hand plus one, and every call in it is on a hand
\* with one constraint fewer than the hand of the call that made it; no
\* call stack of countPossibleStates on hands without constraints is deeper
\* than the number of hands, and every call in it is on a list with one
\* hand fewer than the list of the call that made it.
C37_NestedCallDepth ==
    /\ \A stack \in ret.satisfyConstraints :
          /\ Len(stack) <= Len(stack[1].constraint_list) + 1
          /\ \A k \in 1..(Len(stack) - 1) :
                Len(stack[k + 1].constraint_list)
                  = Len(stack[k].constraint_list) - 1
    /\ \A stack \in ret.countPossibleStates :
          (\A i \in 1..Len(stack[1]) : Len(stack[1][i].constraint_list) = 0)
          => /\ Len(stack) <= Len(stack[1])
             /\ \A k \in 1..(Len(stack) - 1) :
                   Len(stack[k + 1]) = Len(stack[k]) - 1

\* C37 witness: countPossibleStates has gone as deep as it had hands,
\* three, and satisfyConstraints as deep as the hand had constraints plus
\* one, with a constraint that it split into two branches.
C37_Witness ==
    /\ \E stack \in ret.countPossibleStates :
          Len(stack) = 3 /\ Len(stack[1]) = 3
    /\ \E stack \in ret.satisfyConstraints :
          /\ Len(stack) = Len(stack[1].constraint_list) + 1
          /\ Len(stack) >= 2
          /\ Cardinality(satisfyConstraintsCalls(stack[1])) = 2

-----------------------------------------------------------------------------
(* BasicCluePlayer: a player that keeps the people, weapons and rooms it   *)
(* has not seen.  subject is the player.                                   *)

\* most calls made on the player
MaxBasicCalls == 3

\* a value handed to _markCardOff that is no card, as True is
NotACard == 0

\* list(cards) of a tuple of cards
RECURSIVE asList(_)
asList(S) ==
    IF S = {} THEN <<>>
    ELSE LET first == CHOOSE x \in S : \A y \in S : x <= y
         IN <<first>> \o asList(S \ {first})

\* list.pop() in place of list.remove(x)
listPop(list, x) == SubSeq(list, 1, Len(list) - 1)

\* list.remove(x) of a list that holds x: without the first x
listRemove(list, x) ==
    LET i == CHOOSE k \in 1..Len(list) :
                 list[k] = x /\ \A j \in 1..(k - 1) : list[j] # x
    IN SubSeq(list, 1, i - 1) \o SubSeq(list, i + 1, Len(list))

BasicCluePlayer(player_num, num_players) ==
    [cards |-> <<>>,
     player_num |-> player_num,
     num_players |-> num_players,
     accusation |-> None,
     remaining_people |-> asList(PEOPLE),
     remaining_weapons |-> asList(WEAPONS),
     remaining_rooms |-> asList(ROOMS)]

\* BasicCluePlayer._markCardOff
markCardOff(self, card) ==
    IF card \in Range(self.remaining_people)
      THEN [self EXCEPT !.remaining_people = listRemove(@, card)]
    ELSE IF card \in Range(self.remaining_weapons)
      THEN [self EXCEPT !.remaining_weapons = listRemove(@, card)]
    ELSE IF card \in Range(self.remaining_rooms)
      THEN [self EXCEPT !.remaining_rooms = listRemove(@, card)]
    ELSE self

\* BasicCluePlayer.getCard
basicGetCard(self, card) ==
    markCardOff([self EXCEPT !.cards = Append(@, card)], card)

\* BasicCluePlayer.getGuessInformation
basicGetGuessInformation(self, player, guess, proof_list) ==
    LET last == proof_list[Len(proof_list)]
        told == IF player # self.player_num THEN self
                ELSE IF last.kind = "None"
                  THEN [self EXCEPT !.accusation = guess]
                ELSE markCardOff(self, IF last.kind = "card" THEN last.card
                                       ELSE NotACard)
    IN IF /\ Len(told.remaining_people) = 1
          /\ Len(told.remaining_weapons) = 1
          /\ Len(told.remaining_rooms) = 1
         THEN [told EXCEPT !.accusation = <<told.remaining_people[1],
                                            told.remaining_weapons[1],
                                            told.remaining_rooms[1]>>]
       ELSE told

InitBasic ==
    /\ \E player_num \in PlayerIndices :
          subject = BasicCluePlayer(player_num, NumGamePlayers)
    /\ ret = NoCall
    /\ spent = 0
    /\ cache = {}
    /\ players = Unused
    /\ counted = Unused
    /\ count_args = Unused
    /\ game = Unused
    /\ ml = Unused
    /\ cache_size_on_last_load = Unused
    /\ cache_file = Unused

\* getCard(card)
BasicGetCard ==
    /\ spent < MaxBasicCalls
    /\ \E card \in Deck :
          /\ subject' = basicGetCard(subject, card)
          /\ ret' = [op |-> "getCard", val |-> None, card |-> card]
    /\ spent' = spent + 1
    /\ UNCHANGED <<cache_size_on_last_load, cache_file>>
    /\ UNCHANGED <<players, counted, count_args, cache, game, ml>>

\* getGuessInformation(player, guess, proof_list)
BasicGetGuessInformation ==
    /\ spent < MaxBasicCalls
    /\ \E player \in PlayerIndices, guess \in Guesses :
          \E proof_list \in ProofLists(subject.player_num, player, guess) :
             /\ subject' = basicGetGuessInformation(subject, player, guess,
                                                    proof_list)
             /\ ret' = [op |-> "getGuessInformation", val |-> None,
                        card |-> NotACard]
    /\ spent' = spent + 1
    /\ UNCHANGED <<cache_size_on_last_load, cache_file>>
    /\ UNCHANGED <<players, counted, count_args, cache, game, ml>>

\* _markCardOff(card)
MarkCardOff ==
    /\ spent < MaxBasicCalls
    /\ \E card \in Deck \cup {NotACard} :
          /\ subject' = markCardOff(subject, card)
          /\ ret' = [op |-> "_markCardOff", val |-> None, card |-> card]
    /\ spent' = spent + 1
    /\ UNCHANGED <<cache_size_on_last_load, cache_file>>
    /\ UNCHANGED <<players, counted, count_args, cache, game, ml>>

NextBasic ==
    \/ BasicGetCard
    \/ BasicGetGuessInformation
    \/ MarkCardOff

SpecBasic == InitBasic /\ [][NextBasic]_vars

\* the list without x
Without(list, x) == SelectSeq(list, LAMBDA y : y # x)

\* C38: _markCardOff(card) takes the card from the one of
\* remaining_people, remaining_weapons and remaining_rooms that holds it
\* and leaves the other two lists, the order of the list and every other
\* field of the player as they were; a card that is in none of the lists
\* leaves the three lists as they were.
C38_MarkCardOffFrame ==
    [][ret'.op = "_markCardOff"
       => LET card == ret'.card
              lists == <<subject.remaining_people,
                         subject.remaining_weapons,
                         subject.remaining_rooms>>
              holding == {k \in 1..3 : card \in Range(lists[k])}
          IN /\ Cardinality(holding) <= 1
             /\ subject'.remaining_people = Without(lists[1], card)
             /\ subject'.remaining_weapons = Without(lists[2], card)
             /\ subject'.remaining_rooms = Without(lists[3], card)
             /\ Len(subject'.remaining_people) + Len(subject'.remaining_weapons)
                  + Len(subject'.remaining_rooms)
                  = Len(lists[1]) + Len(lists[2]) + Len(lists[3])
                      - Cardinality(holding)
             /\ holding = {}
                  => /\ subject'.remaining_people = lists[1]
                     /\ subject'.remaining_weapons = lists[2]
                     /\ subject'.remaining_rooms = lists[3]
             /\ subject'.cards = subject.cards
             /\ subject'.accusation = subject.accusation
             /\ subject'.player_num = subject.player_num
             /\ subject'.num_players = subject.num_players]_vars

\* C38 witness: _markCardOff has taken the first of two weapons from a
\* player that had marked off another card before and holds a card.
C38_Witness ==
    /\ ret.op = "_markCardOff"
    /\ ret.card \in WEAPONS
    /\ Len(subject.remaining_weapons) = Cardinality(WEAPONS) - 1
    /\ ret.card < subject.remaining_weapons[1]
    /\ Len(subject.cards) > 0
    /\ Len(subject.remaining_people) + Len(subject.remaining_rooms)
         < Cardinality(PEOPLE) + Cardinality(ROOMS)

====
